---- MODULE Spec2Model ----
(***************************************************************************)
(* Model of the bgpd RTR engine (usr.sbin/bgpd/rtr.c): the ROA / ASPA      *)
(* store, the reconfiguration handler driven by the parent's imsg stream,  *)
(* the expiry timer and the recalculation that pushes a snapshot to the    *)
(* RDE.                                                                    *)
(*                                                                         *)
(* Conventions.  A C pointer is a sequence of length 0 (NULL) or 1.  An RB *)
(* tree is the sequence of its elements in RB_FOREACH order.  A process    *)
(* that called fatal()/fatalx() is in state "fatal"; one that dereferenced *)
(* NULL or was aborted by the allocator is in state "crashed".             *)
(***************************************************************************)
EXTENDS Integers, Sequences, FiniteSets, TLC

----------------------------------------------------------------------------
(* Bounds of the model *)

\* number of clock advances explored
MaxElapse == 2
\* longest provider array of a set handed to rtr_aspa_insert
MaxNum == 2
\* longest run of aspa_set_entry calls on one set
MaxEntries == 3
\* longest run of rtr_roa_insert calls on one tree
MaxIns == 3
\* most providers of an active ASPA set handed to rtr_recalc
MaxProv == 17
\* longest provider array received in an order of the parent's choice
MaxRecv == 3

----------------------------------------------------------------------------
(* Program constants *)

AID_UNSPEC == 0
AID_INET == 1
AID_INET6 == 2
AID_VPN_IPv4 == 3
EXPIRE_TIMEOUT == 300

NULL == <<>>
Ptr(x) == <<x>>
Deref(p) == p[1]

Min(a, b) == IF a < b THEN a ELSE b

\* s with e put in front of its element number i+1 (i counts from 0)
InsertAt(s, i, e) == SubSeq(s, 1, i) \o <<e>> \o SubSeq(s, i + 1, Len(s))
RemoveAt(s, i) == SubSeq(s, 1, i - 1) \o SubSeq(s, i + 1, Len(s))

----------------------------------------------------------------------------
(* Ordered containers: sys/tree.h RB_* over a comparison function *)

RECURSIVE LexCmp(_, _)
LexCmp(x, y) ==
    IF x = <<>> THEN 0
    ELSE IF Head(x) < Head(y) THEN -1
    ELSE IF Head(x) > Head(y) THEN 1
    ELSE LexCmp(Tail(x), Tail(y))

\* identity of a ROA: its full field tuple
roa_cmp(a, b) ==
    LexCmp(<<a.aid, a.prefix, a.prefixlen, a.asnum, a.maxlen, a.expires>>,
           <<b.aid, b.prefix, b.prefixlen, b.asnum, b.maxlen, b.expires>>)

\* identity of an ASPA set: its customer AS
aspa_cmp(a, b) == IF a.as < b.as THEN -1 ELSE IF a.as > b.as THEN 1 ELSE 0

\* RB_FIND: index of the element equal to elm, 0 when there is none
roa_tree_RB_FIND(head, elm) ==
    IF \E i \in 1..Len(head) : roa_cmp(elm, head[i]) = 0
    THEN CHOOSE i \in 1..Len(head) : roa_cmp(elm, head[i]) = 0
    ELSE 0

aspa_tree_RB_FIND(head, elm) ==
    IF \E i \in 1..Len(head) : aspa_cmp(elm, head[i]) = 0
    THEN CHOOSE i \in 1..Len(head) : aspa_cmp(elm, head[i]) = 0
    ELSE 0

\* RB_INSERT: the tree afterwards; unchanged when an equal element exists
\* (RB_INSERT then returns that element)
roa_tree_RB_INSERT(head, elm) ==
    IF roa_tree_RB_FIND(head, elm) # 0 THEN head
    ELSE InsertAt(head, Cardinality({i \in 1..Len(head) : roa_cmp(head[i], elm) < 0}), elm)

aspa_tree_RB_INSERT(head, elm) ==
    IF aspa_tree_RB_FIND(head, elm) # 0 THEN head
    ELSE InsertAt(head, Cardinality({i \in 1..Len(head) : aspa_cmp(head[i], elm) < 0}), elm)

RB_REMOVE(head, i) == RemoveAt(head, i)

----------------------------------------------------------------------------
(* Trust-data store: expiry and insertion *)

roa_expired_strict(roa, now) == roa.expires # 0 /\ roa.expires < now
roa_expired(roa, now) == roa.expires # 0 /\ roa.expires <= now

aspa_expired_zero(aspa, now) == aspa.expires <= now
aspa_expired(aspa, now) == aspa.expires # 0 /\ aspa.expires <= now

RECURSIVE expire_roas_loop(_, _, _, _)
expire_roas_loop(tree, i, now, recalc) ==
    IF i > Len(tree) THEN [tree |-> tree, recalc |-> recalc]
    ELSE IF roa_expired(tree[i], now)
         THEN expire_roas_loop(RB_REMOVE(tree, i), i, now, recalc + 1)
         ELSE expire_roas_loop(tree, i + 1, now, recalc)

rtr_expire_roas(roa_tree, now) == expire_roas_loop(roa_tree, 1, now, 0)

RECURSIVE expire_aspa_loop(_, _, _, _)
expire_aspa_loop(tree, i, now, recalc) ==
    IF i > Len(tree) THEN [tree |-> tree, recalc |-> recalc]
    ELSE IF aspa_expired(tree[i], now)
         THEN expire_aspa_loop(RB_REMOVE(tree, i), i, now, recalc + 1)
         ELSE expire_aspa_loop(tree, i + 1, now, recalc)

rtr_expire_aspa(aspa_tree, now) == expire_aspa_loop(aspa_tree, 1, now, 0)

rtr_roa_insert_always(rt, in) ==
    InsertAt(rt, Cardinality({i \in 1..Len(rt) : roa_cmp(rt[i], in) < 0}), in)
rtr_roa_insert(rt, in) == roa_tree_RB_INSERT(rt, in)

----------------------------------------------------------------------------
(* ASPA merge *)

ValidAid(aid) == aid \in {AID_UNSPEC, AID_INET, AID_INET6}

RECURSIVE aspa_set_scan_nomatch(_, _, _)
aspa_set_scan_nomatch(aspa, asnum, i) ==
    IF i >= aspa.num THEN [i |-> i, found |-> FALSE]
    ELSE IF asnum <= Deref(aspa.tas)[i + 1] THEN [i |-> i, found |-> FALSE]
    ELSE aspa_set_scan_nomatch(aspa, asnum, i + 1)

\* the for loop of aspa_set_entry: where it stops and whether it found asnum
RECURSIVE aspa_set_scan(_, _, _)
aspa_set_scan(aspa, asnum, i) ==
    IF i >= aspa.num THEN [i |-> i, found |-> FALSE]
    ELSE IF asnum < Deref(aspa.tas)[i + 1] THEN [i |-> i, found |-> FALSE]
    ELSE IF asnum = Deref(aspa.tas)[i + 1] THEN [i |-> i, found |-> TRUE]
    ELSE aspa_set_scan(aspa, asnum, i + 1)

\* the arrays behind a pointer; recallocarray(NULL, 0, ...) starts an empty one
ArrayOf(p) == IF p = NULL THEN <<>> ELSE Deref(p)

aspa_widen_keep(old, aid) == old
aspa_widen(old, aid) == IF old # aid THEN AID_UNSPEC ELSE old

aspa_set_place_append(aspa, asnum, i) == aspa.num
aspa_set_place(aspa, asnum, i) == i

\* aspa_set_entry for a valid aid
aspa_set_entry(aspa, asnum, aid) ==
    LET s == aspa_set_scan(aspa, asnum, 0)
    IN  IF s.found
        THEN [aspa EXCEPT !.tas_aid =
                 Ptr([Deref(aspa.tas_aid) EXCEPT
                         ![s.i + 1] = aspa_widen(Deref(aspa.tas_aid)[s.i + 1], aid)])]
        ELSE LET at == aspa_set_place(aspa, asnum, s.i)
             IN  [aspa EXCEPT !.num = aspa.num + 1,
                              !.tas = Ptr(InsertAt(ArrayOf(aspa.tas), at, asnum)),
                              !.tas_aid = Ptr(InsertAt(ArrayOf(aspa.tas_aid), at, aid))]

\* the for loop of rtr_aspa_insert over mergeset, from entry i (counted from 0):
\* reading mergeset->tas[i] or mergeset->tas_aid[i] through NULL ends the
\* process, an invalid aid is fatal
RECURSIVE aspa_merge_loop(_, _, _)
aspa_merge_loop(aspa, mergeset, i) ==
    IF i >= mergeset.num THEN [aspa |-> aspa, status |-> "ok"]
    ELSE IF mergeset.tas = NULL \/ mergeset.tas_aid = NULL
         THEN [aspa |-> aspa, status |-> "crashed"]
    ELSE IF ~ValidAid(Deref(mergeset.tas_aid)[i + 1])
         THEN [aspa |-> aspa, status |-> "fatal"]
    ELSE aspa_merge_loop(
             aspa_set_entry(aspa, Deref(mergeset.tas)[i + 1],
                            Deref(mergeset.tas_aid)[i + 1]),
             mergeset, i + 1)

\* a calloc'ed aspa_set with only the customer AS filled in
EmptyAspa(as) ==
    [expires |-> 0, as |-> as, num |-> 0, tas |-> NULL, tas_aid |-> NULL]

aspa_insert_at(at1, k, mergeset) ==
    CHOOSE res \in
        {[at |-> [at1 EXCEPT ![k] = r.aspa], status |-> r.status] :
            r \in {aspa_merge_loop(at1[k], mergeset, 0)}} : TRUE

rtr_aspa_insert(at, mergeset) ==
    CHOOSE res \in
        {aspa_insert_at(at1, aspa_tree_RB_FIND(at1, mergeset), mergeset) :
            at1 \in {aspa_tree_RB_INSERT(at, EmptyAspa(mergeset.as))}} : TRUE

----------------------------------------------------------------------------
(* Recalculation: the compact wire form of a set and the snapshot stream *)

\* the 2-bit family code of one provider in the packed mask
afi_code(aid) ==
    IF aid = AID_INET THEN 1 ELSE IF aid = AID_INET6 THEN 2 ELSE 3

\* A uint32_t mask is kept as its sixteen 2-bit fields, field 0 lowest.
ZeroMask == [f \in 0..15 |-> 0]

Or2(a, b) ==
    (IF a % 2 = 1 \/ b % 2 = 1 THEN 1 ELSE 0)
    + (IF a \div 2 = 1 \/ b \div 2 = 1 THEN 2 ELSE 0)

\* mask |= code << ((i % 16) * 2)
mask_or(mask, code, i) == [mask EXCEPT ![i % 16] = Or2(mask[i % 16], code)]

\* byte k of the mask in memory (little-endian host)
mask_byte(mask, k) ==
    mask[4 * k] + 4 * mask[4 * k + 1] + 16 * mask[4 * k + 2] + 64 * mask[4 * k + 3]

\* memcpy(buf + off, &mask, sizeof(mask)): the bytes that fall inside buf
write_mask(buf, off, mask) ==
    [j \in 1..Len(buf) |->
        IF j - 1 >= off /\ j - 1 < off + 4 THEN mask_byte(mask, j - 1 - off)
        ELSE buf[j]]

\* the cases of the switch that set needafi
single_family_any(aid) == TRUE
single_family(aid) == aid = AID_INET \/ aid = AID_INET6

\* the for loop of rtr_aspa_set_prep from provider i on
RECURSIVE aspa_prep_loop(_, _, _, _, _)
aspa_prep_loop(buf, num, i, mask, needafi) ==
    IF i >= num THEN [buf |-> buf, mask |-> mask, needafi |-> needafi]
    ELSE LET aid == buf[i + 1]
             m == mask_or(mask, afi_code(aid), i)
             nf == needafi \/ single_family(aid)
         IN  IF i % 16 = 15
             THEN aspa_prep_loop(write_mask(buf, (i \div 16) * 4, m),
                                 num, i + 1, ZeroMask, nf)
             ELSE aspa_prep_loop(buf, num, i + 1, m, nf)

\* the memcpy calls of rtr_aspa_set_prep on a set of num providers: the
\* offset in tas_aid each writes its 4 bytes at, and how many of the codes
\* the loop has read by then (all of them for the one after the loop)
mask_writes(num, needafi) ==
    {[off |-> (i \div 16) * 4, read |-> i + 1] : i \in {j \in 0..(num - 1) : j % 16 = 15}}
    \cup (IF needafi THEN {[off |-> (num \div 16) * 4, read |-> num]} ELSE {})

\* bytes the secondary array adds to the size rtr_aspa_set_prep returns
mask_size_words(num) == 4 * ((num + 15) \div 16)
mask_size(num) == (num + 15) \div 16

\* length rtr_recalc gives the message that carries the secondary array
mask_msg_len(num) == (num + 15) \div 16

\* rtr_aspa_set_prep: the set with tas_aid packed in place (or freed), the
\* size it returns, and whether the trailing memcpy wrote past the num bytes
\* of tas_aid
rtr_aspa_set_prep(aspa) ==
    LET r == aspa_prep_loop(ArrayOf(aspa.tas_aid), aspa.num, 0, ZeroMask, FALSE)
        off == (aspa.num \div 16) * 4
    IN  IF ~r.needafi
        THEN [aspa |-> [aspa EXCEPT !.tas_aid = NULL],
              s |-> aspa.num * 4, oob |-> FALSE]
        ELSE [aspa |-> [aspa EXCEPT !.tas_aid = Ptr(write_mask(r.buf, off, r.mask))],
              s |-> aspa.num * 4 + mask_size(aspa.num),
              oob |-> off + 4 > aspa.num]

Imsg(type, data) == [type |-> type, data |-> data]

RoaData(roa) ==
    <<roa.aid, roa.prefix, roa.prefixlen, roa.maxlen, roa.asnum, roa.expires>>

\* ROAs and ASPA sets learned over the router sessions (rtr_proto.c); the
\* sessions of the model hold none
rtr_roa_merge(rt) == rt
rtr_aspa_merge(at) == at

\* RB_FOREACH(roa, roa_tree, &conf->roa) rtr_roa_insert(&rt, roa)
RECURSIVE roa_union(_, _, _)
roa_union(rt, tree, i) ==
    IF i > Len(tree) THEN rt
    ELSE roa_union(rtr_roa_insert(rt, tree[i]), tree, i + 1)

\* the scratch tree is the active tree as it stands: nothing is merged
aspa_union_copy(at, tree, i) == [at |-> tree, status |-> "ok"]

\* RB_FOREACH(aspa, aspa_tree, &conf->aspa) rtr_aspa_insert(&at, aspa)
RECURSIVE aspa_union(_, _, _)
aspa_union(at, tree, i) ==
    IF i > Len(tree) THEN [at |-> at, status |-> "ok"]
    ELSE LET r == rtr_aspa_insert(at, tree[i])
         IN  IF r.status # "ok" THEN r ELSE aspa_union(r.at, tree, i + 1)

\* the message kind the packed family mask of a set is sent under
mask_imsg_type == "IMSG_RECONF_ASPA_TAS"

\* the set is streamed with its family mask in front of its providers
aspa_msgs_mask_first(set) ==
    <<Imsg("IMSG_RECONF_ASPA", <<set.as, set.num>>)>>
    \o (IF set.tas_aid # NULL
        THEN <<Imsg(mask_imsg_type,
                    SubSeq(Deref(set.tas_aid), 1, mask_msg_len(set.num)))>>
        ELSE <<>>)
    \o <<Imsg("IMSG_RECONF_ASPA_TAS", ArrayOf(set.tas)),
         Imsg("IMSG_RECONF_ASPA_DONE", <<>>)>>

\* the messages of one set of the ASPA half; the payload of the mask message
\* is the first (num + 15) / 16 bytes of tas_aid
aspa_msgs(set) ==
    <<Imsg("IMSG_RECONF_ASPA", <<set.as, set.num>>),
      Imsg("IMSG_RECONF_ASPA_TAS", ArrayOf(set.tas))>>
    \o (IF set.tas_aid # NULL
        THEN <<Imsg(mask_imsg_type,
                    SubSeq(Deref(set.tas_aid), 1, mask_msg_len(set.num)))>>
        ELSE <<>>)
    \o <<Imsg("IMSG_RECONF_ASPA_DONE", <<>>)>>

RECURSIVE SeqSum(_)
SeqSum(s) == IF s = <<>> THEN 0 ELSE Head(s) + SeqSum(Tail(s))

RECURSIVE Flatten(_)
Flatten(ss) == IF ss = <<>> THEN <<>> ELSE Head(ss) \o Flatten(Tail(ss))

\* the stream of a recalculation that ran through: rt and at are the scratch
\* unions after rtr_aspa_set_prep, sizes what rtr_aspa_set_prep returned
recalc_stream(rt, at, sizes) ==
    <<Imsg("IMSG_RECONF_ROA_SET", <<>>)>>
    \o [k \in 1..Len(rt) |-> Imsg("IMSG_RECONF_ROA_ITEM", RoaData(rt[k]))]
    \o <<Imsg("IMSG_RECONF_ASPA_PREP", <<SeqSum(sizes), Len(sizes)>>)>>
    \o Flatten([k \in 1..Len(at) |-> aspa_msgs(at[k])])
    \o <<Imsg("IMSG_RECONF_DONE", <<>>)>>

\* the tree whose sets the first RB_FOREACH of the ASPA half hands to
\* rtr_aspa_set_prep: the scratch union at, not conf->aspa
prep_target_live == "live"
prep_target == "scratch"

\* the two ASPA trees of a recalculation after the loop over preps, the
\* results of rtr_aspa_set_prep on the sets of trees[prep_target]
trees_after_prep(trees, preps) ==
    [trees EXCEPT ![prep_target] = [k \in 1..Len(preps) |-> preps[k].aspa]]

recalc_emit(c, rt, trees, preps) ==
    [status |-> "ok",
     out |-> recalc_stream(rt, trees.scratch, [k \in 1..Len(preps) |-> preps[k].s]),
     oob |-> \E k \in 1..Len(preps) : preps[k].oob,
     live |-> [c EXCEPT !.aspa = trees.live]]

recalc_result(rde, c, rt, u) ==
    IF rde = NULL \/ u.status # "ok"
    THEN [status |-> IF rde = NULL THEN "crashed" ELSE u.status,
          out |-> <<>>, oob |-> FALSE, live |-> c]
    ELSE CHOOSE res \in
             UNION {{recalc_emit(c, rt, trees_after_prep(trees, preps), preps) :
                        preps \in {[k \in 1..Len(trees[prep_target]) |->
                                       rtr_aspa_set_prep(trees[prep_target][k])]}} :
                    trees \in {[live |-> c.aspa, scratch |-> rtr_aspa_merge(u.at)]}} : TRUE

\* rtr_recalc on the active store c with the RDE channel rde (a pointer):
\* how it ends, the messages it queued for the RDE, whether a packed mask
\* was written past its buffer, and the active store afterwards.
\* imsg_compose on a NULL channel ends the process at the first message.
rtr_recalc(c, rde) ==
    CHOOSE res \in
        {recalc_result(rde, c, rt, u) :
            rt \in {rtr_roa_merge(roa_union(<<>>, c.roa, 1))},
            u \in {aspa_union(<<>>, c.aspa, 1)}} : TRUE

----------------------------------------------------------------------------
(* Inputs the parent can send *)

Roa(aid, prefix, prefixlen, maxlen, asnum, expires) ==
    [aid |-> aid, prefix |-> prefix, prefixlen |-> prefixlen,
     maxlen |-> maxlen, asnum |-> asnum, expires |-> expires]

\* 10.0.0.0/8-24 AS 65000 without expiry, 2001:db8::/32-48 AS 65001 until 300
RoaItems ==
    {Roa(AID_INET, 10 * 2 ^ 24, 8, 24, 65000, 0),
     Roa(AID_INET6, 8193 * 2 ^ 16 + 3512, 32, 48, 65001, EXPIRE_TIMEOUT)}

\* the part of struct aspa_set before tas: expires, as, num
AspaHeaders ==
    {[expires |-> 0, as |-> 65001, num |-> 2],
     [expires |-> EXPIRE_TIMEOUT - 1, as |-> 65001, num |-> 1]}

TasPayloads == {<<64501, 64502>>, <<64502>>}

AidPayloads == {<<AID_INET, AID_UNSPEC>>, <<AID_UNSPEC>>}

\* descriptors passed with IMSG_SOCKET_CONN_RTR; -1 when none came along
RdeFds == {-1, 4}

TimeStep == EXPIRE_TIMEOUT \div 2

----------------------------------------------------------------------------
(* State of the RTR engine *)

VARIABLES
    state,          \* "running", "fatal" (fatal/fatalx) or "crashed"
    conf,           \* the active config: its roa and aspa trees
    nconf,          \* pointer to the staged config
    aspa,           \* pointer to the ASPA set under assembly (static aspa)
    ibuf_rde,       \* pointer to the channel to the RDE
    now,            \* the clock, in seconds
    expire_timer,   \* when Timer_Rtr_Expire is due
    rde_out,        \* messages the last step queued on ibuf_rde
    main_out,       \* messages the last step queued on ibuf_main
    expired,        \* what rtr_expire_roas / rtr_expire_aspa returned in the last step
    recalcs,        \* how often the last step called rtr_recalc
    logged,         \* the warnings the last step logged with log_warnx
    rtr_quit,       \* the flag rtr_sighdlr sets on SIGINT / SIGTERM
    pc,             \* where rtr_main stands in its loop ("any": not followed)
    sessions,       \* the registered RTR sessions
    closed,         \* the descriptors the last step closed
    recv_roa,       \* history: ROA items received since the most recent begin
    aspa_old,       \* history: the set under assembly got its header before the
                    \*          most recent begin or commit
    old_as,         \* history: customer ASes staged from such a set since the
                    \*          most recent begin
    rebegun,        \* history: the most recent begin found a staged config pending
    t_in,           \* harness: inputs of the function under test
    t_res,          \* harness: its results so far
    t_pc            \* harness: steps taken

engine == <<state, conf, nconf, aspa, ibuf_rde, now, expire_timer,
            rde_out, main_out, expired, recalcs, logged,
            rtr_quit, pc, sessions, closed,
            recv_roa, aspa_old, old_as, rebegun>>
harness == <<t_in, t_res, t_pc>>
vars == <<state, conf, nconf, aspa, ibuf_rde, now, expire_timer,
          rde_out, main_out, expired, recalcs, logged,
          rtr_quit, pc, sessions, closed,
          recv_roa, aspa_old, old_as, rebegun,
          t_in, t_res, t_pc>>

\* timer_set(..., offset) at time t: the timer is due offset seconds later
timer_set_absolute(t, offset) == offset
timer_set(t, offset) == t + offset

\* The session registry (rtr_proto.c): a session has an id, the descriptor of
\* its connection (-1 while it has none) and the mark of the reconfiguration
\* under way (kept or to be deleted at the commit)
Session(id, fd, keep) == [id |-> id, fd |-> fd, keep |-> keep]

rtr_get(ss, id) ==
    IF \E s \in ss : s.id = id THEN Ptr(CHOOSE s \in ss : s.id = id) ELSE NULL

rtr_new(ss, id) == ss \cup {Session(id, -1, TRUE)}

rtr_config_keep(ss, rs) == (ss \ {rs}) \cup {[rs EXCEPT !.keep = TRUE]}

rtr_config_prep(ss) == {[s EXCEPT !.keep = FALSE] : s \in ss}

rtr_config_merge(ss) == {s \in ss : s.keep}

rtr_open(ss, rs, fd) == (ss \ {rs}) \cup {[rs EXCEPT !.fd = fd]}

rtr_shutdown(ss) == {}

\* the descriptors of the connections of a set of sessions
OpenFds(ss) == {s.fd : s \in ss} \ {-1}

\* new_config(): empty trees
new_config == [roa |-> <<>>, aspa |-> <<>>]

\* rtr_main up to its loop
EngineStart ==
    /\ state = "running"
    /\ conf = new_config
    /\ nconf = NULL
    /\ aspa = NULL
    /\ ibuf_rde = NULL
    /\ now = 0
    /\ expire_timer = timer_set(0, EXPIRE_TIMEOUT)
    /\ rde_out = <<>>
    /\ main_out = <<>>
    /\ expired = <<0, 0>>
    /\ recalcs = 0
    /\ logged = <<>>
    /\ recv_roa = {}
    /\ aspa_old = FALSE
    /\ old_as = {}
    /\ rebegun = FALSE
    /\ rtr_quit = 0
    /\ sessions = {}
    /\ closed = {}

\* ... in a run that does not follow the position in the loop
EngineInit == EngineStart /\ pc = "any"

HarnessIdle == t_in = <<>> /\ t_res = <<>> /\ t_pc = 0

Init == EngineInit /\ HarnessIdle

\* the step sends nothing and calls neither an expiry pass nor rtr_recalc
Silent == rde_out' = <<>> /\ main_out' = <<>> /\ expired' = <<0, 0>> /\ recalcs' = 0

\* ... and logs nothing
Quiet == Silent /\ logged' = <<>>

History == <<recv_roa, aspa_old, old_as, rebegun>>

\* the process ends in the step, before changing anything
Die(how) ==
    /\ state' = how
    /\ Quiet
    /\ closed' = {}
    /\ UNCHANGED <<conf, nconf, aspa, ibuf_rde, now, expire_timer, History>>
    /\ UNCHANGED <<rtr_quit, pc, sessions>>
    /\ UNCHANGED harness

\* the step goes on; the clock and the timer are not touched by a message
Live ==
    /\ state' = "running"
    /\ closed' = {}
    /\ UNCHANGED <<now, expire_timer, rtr_quit, pc>>
    /\ UNCHANGED harness

----------------------------------------------------------------------------
(* rtr_dispatch_imsg_parent, one message per step *)

SOCKET_CONN_RTR(fd) ==
    /\ state = "running"
    /\ Live /\ Silent
    /\ logged' = IF fd = -1
                 THEN <<"expected to receive imsg fd but didn't receive any">>
                 ELSE IF ibuf_rde # NULL
                 THEN <<"Unexpected imsg ctl connection to RDE received">>
                 ELSE <<>>
    /\ ibuf_rde' = IF fd = -1 THEN ibuf_rde ELSE Ptr(fd)
    /\ UNCHANGED <<sessions, conf, nconf, aspa, History>>

RECONF_CONF_single(lenok) ==
    /\ state = "running"
    /\ IF ~lenok \/ nconf # NULL THEN Die("fatal")
       ELSE /\ Live /\ Quiet
            /\ nconf' = Ptr(new_config)
            /\ recv_roa' = {}
            /\ old_as' = {}
            /\ aspa_old' = (aspa # NULL)
            /\ rebegun' = FALSE
            /\ sessions' = rtr_config_prep(sessions)
            /\ UNCHANGED <<conf, aspa, ibuf_rde>>

RECONF_CONF(lenok) ==
    /\ state = "running"
    /\ IF ~lenok THEN Die("fatal")
       ELSE /\ Live /\ Quiet
            /\ nconf' = Ptr(new_config)
            /\ recv_roa' = {}
            /\ old_as' = {}
            /\ aspa_old' = (aspa # NULL)
            /\ rebegun' = (nconf # NULL)
            /\ sessions' = rtr_config_prep(sessions)
            /\ UNCHANGED <<conf, aspa, ibuf_rde>>

RECONF_ROA_ITEM(lenok, roa) ==
    /\ state = "running"
    /\ IF ~lenok THEN Die("fatal")
       ELSE IF nconf = NULL THEN Die("crashed")
       ELSE /\ Live /\ Quiet
            /\ nconf' = Ptr([Deref(nconf) EXCEPT
                                !.roa = rtr_roa_insert(Deref(nconf).roa, roa)])
            /\ recv_roa' = recv_roa \cup {roa}
            /\ UNCHANGED <<sessions, conf, aspa, ibuf_rde, aspa_old, old_as, rebegun>>

\* a header is taken whether or not a set is under assembly
RECONF_ASPA_replace(lenok, hdr) ==
    /\ state = "running"
    /\ IF ~lenok THEN Die("fatal")
       ELSE /\ Live /\ Quiet
            /\ aspa' = Ptr([expires |-> hdr.expires, as |-> hdr.as, num |-> hdr.num,
                            tas |-> NULL, tas_aid |-> NULL])
            /\ aspa_old' = FALSE
            /\ UNCHANGED <<sessions, conf, nconf, ibuf_rde, recv_roa, old_as, rebegun>>

RECONF_ASPA(lenok, hdr) ==
    /\ state = "running"
    /\ IF ~lenok \/ aspa # NULL THEN Die("fatal")
       ELSE /\ Live /\ Quiet
            /\ aspa' = Ptr([expires |-> hdr.expires, as |-> hdr.as, num |-> hdr.num,
                            tas |-> NULL, tas_aid |-> NULL])
            /\ aspa_old' = FALSE
            /\ UNCHANGED <<sessions, conf, nconf, ibuf_rde, recv_roa, old_as, rebegun>>

\* a provider array is taken whatever its length
RECONF_ASPA_TAS_anylen(tas) ==
    /\ state = "running"
    /\ IF aspa = NULL THEN Die("fatal")
       ELSE /\ Live /\ Quiet
            /\ aspa' = Ptr([Deref(aspa) EXCEPT !.tas = Ptr(tas)])
            /\ UNCHANGED <<sessions, conf, nconf, ibuf_rde, History>>

\* the payload is an array of uint32_t: len = 4 * Len(tas)
RECONF_ASPA_TAS(tas) ==
    /\ state = "running"
    /\ IF aspa = NULL THEN Die("fatal")
       ELSE IF Len(tas) * 4 # Deref(aspa).num * 4 THEN Die("fatal")
       ELSE /\ Live /\ Quiet
            /\ aspa' = Ptr([Deref(aspa) EXCEPT !.tas = Ptr(tas)])
            /\ UNCHANGED <<sessions, conf, nconf, ibuf_rde, History>>

\* the family array is taken and the provider array of the set is dropped
RECONF_ASPA_TAS_AID_reset(aids) ==
    /\ state = "running"
    /\ IF aspa = NULL THEN Die("fatal")
       ELSE IF Len(aids) # Deref(aspa).num THEN Die("fatal")
       ELSE /\ Live /\ Quiet
            /\ aspa' = Ptr([Deref(aspa) EXCEPT !.tas = NULL, !.tas_aid = Ptr(aids)])
            /\ UNCHANGED <<sessions, conf, nconf, ibuf_rde, History>>

\* the payload is an array of uint8_t: len = Len(aids)
RECONF_ASPA_TAS_AID(aids) ==
    /\ state = "running"
    /\ IF aspa = NULL THEN Die("fatal")
       ELSE IF Len(aids) # Deref(aspa).num THEN Die("fatal")
       ELSE /\ Live /\ Quiet
            /\ aspa' = Ptr([Deref(aspa) EXCEPT !.tas_aid = Ptr(aids)])
            /\ UNCHANGED <<sessions, conf, nconf, ibuf_rde, History>>

RECONF_ASPA_DONE_live ==
    /\ state = "running"
    /\ IF aspa = NULL THEN Die("fatal")
       ELSE IF nconf = NULL THEN Die("crashed")
       ELSE /\ Live /\ Quiet
            /\ conf' = [conf EXCEPT !.aspa = aspa_tree_RB_INSERT(conf.aspa, Deref(aspa))]
            /\ aspa' = NULL
            /\ aspa_old' = FALSE
            /\ UNCHANGED <<sessions, nconf, ibuf_rde, recv_roa, old_as, rebegun>>

\* a set whose customer AS is already staged is merged into the staged set
RECONF_ASPA_DONE_merge ==
    /\ state = "running"
    /\ IF aspa = NULL THEN Die("fatal")
       ELSE IF nconf = NULL THEN Die("crashed")
       ELSE /\ Live /\ Quiet
            /\ nconf' = Ptr([Deref(nconf) EXCEPT
                                !.aspa = rtr_aspa_insert(Deref(nconf).aspa, Deref(aspa)).at])
            /\ aspa' = NULL
            /\ aspa_old' = FALSE
            /\ UNCHANGED <<sessions, conf, ibuf_rde, recv_roa, old_as, rebegun>>

RECONF_ASPA_DONE ==
    /\ state = "running"
    /\ IF aspa = NULL THEN Die("fatal")
       ELSE IF nconf = NULL THEN Die("crashed")
       ELSE LET dup == aspa_tree_RB_FIND(Deref(nconf).aspa, Deref(aspa)) # 0
            IN  /\ Live /\ Silent
                /\ logged' = IF dup THEN <<"duplicate ASPA set received">> ELSE <<>>
                /\ nconf' = Ptr([Deref(nconf) EXCEPT
                                    !.aspa = aspa_tree_RB_INSERT(Deref(nconf).aspa,
                                                       Deref(aspa))])
                /\ aspa' = NULL
                /\ aspa_old' = FALSE
                /\ old_as' = IF aspa_old /\ ~dup
                             THEN old_as \cup {Deref(aspa).as} ELSE old_as
                /\ UNCHANGED <<sessions, conf, ibuf_rde, recv_roa, rebegun>>

\* the echo is sent and the staged config is dropped
RECONF_DRAIN_reset ==
    /\ state = "running"
    /\ Live
    /\ rde_out' = <<>>
    /\ main_out' = <<Imsg("IMSG_RECONF_DRAIN", <<>>)>>
    /\ expired' = <<0, 0>>
    /\ recalcs' = 0
    /\ logged' = <<>>
    /\ nconf' = NULL
    /\ UNCHANGED <<sessions, conf, aspa, ibuf_rde, History>>

RECONF_DRAIN ==
    /\ state = "running"
    /\ Live
    /\ rde_out' = <<>>
    /\ main_out' = <<Imsg("IMSG_RECONF_DRAIN", <<>>)>>
    /\ expired' = <<0, 0>>
    /\ recalcs' = 0
    /\ logged' = <<>>
    /\ UNCHANGED <<sessions, conf, nconf, aspa, ibuf_rde, History>>

\* how a call of rtr_recalc can end: a mask written past its buffer is
\* undefined behaviour, which passes unnoticed or gets the process aborted
\* when the buffer is freed
RecalcOutcomes(c, rde) ==
    UNION {IF r.status # "ok" THEN {[status |-> r.status, out |-> <<>>, live |-> c]}
           ELSE IF r.oob THEN {[status |-> "ok", out |-> r.out, live |-> r.live],
                               [status |-> "crashed", out |-> <<>>, live |-> c]}
           ELSE {[status |-> "ok", out |-> r.out, live |-> r.live]} :
           r \in {rtr_recalc(c, rde)}}

NoRecalc(c) == {[status |-> "ok", out |-> <<>>, live |-> c]}

\* the trees of the staged config moved into the active config
config_swap(c, n) == [roa |-> n.roa, aspa |-> n.aspa]

\* the store the rtr_recalc of a commit works on: sw as switched in, c2 after
\* the two expiry passes
commit_recalc_early(sw, c2) == sw
commit_recalc_input(sw, c2) == c2

\* the staged config a commit works on
commit_staged_default(n) == IF n = NULL THEN Ptr(new_config) ELSE n
commit_staged(n) == n

RECONF_DONE ==
    /\ state = "running"
    /\ IF commit_staged(nconf) = NULL THEN Die("fatal")
       ELSE LET sw == config_swap(conf, Deref(commit_staged(nconf)))
                er == rtr_expire_roas(sw.roa, now)
                ea == rtr_expire_aspa(sw.aspa, now)
                c2 == [roa |-> er.tree, aspa |-> ea.tree]
            IN  \E o \in RecalcOutcomes(commit_recalc_input(sw, c2), ibuf_rde) :
                    /\ conf' = o.live
                    /\ expired' = <<er.recalc, ea.recalc>>
                    /\ recalcs' = 1
                    /\ logged' = <<>>
                    /\ state' = IF o.status = "ok" THEN "running" ELSE o.status
                    /\ rde_out' = o.out
                    /\ main_out' = IF o.status = "ok"
                                   THEN <<Imsg("IMSG_RECONF_DONE", <<>>)>> ELSE <<>>
                    /\ nconf' = IF o.status = "ok" THEN NULL ELSE Ptr(new_config)
                    /\ aspa_old' = (aspa # NULL)
                    /\ sessions' = rtr_config_merge(sessions)
                    /\ closed' = OpenFds(sessions \ rtr_config_merge(sessions))
                    /\ UNCHANGED <<aspa, ibuf_rde, now, expire_timer,
                                   recv_roa, old_as, rebegun, rtr_quit, pc>>
                    /\ UNCHANGED harness

----------------------------------------------------------------------------
(* rtr_main: the rest of the loop *)

\* time passes while the loop waits in poll(), which returns when the timer
\* is due at the latest; the queues have been written out
Elapse ==
    /\ state = "running"
    /\ now < MaxElapse * TimeStep
    /\ now + TimeStep <= expire_timer
    /\ now' = now + TimeStep
    /\ Quiet
    /\ closed' = {}
    /\ UNCHANGED <<state, conf, nconf, aspa, ibuf_rde, expire_timer, History>>
    /\ UNCHANGED <<rtr_quit, pc, sessions>>
    /\ UNCHANGED harness

\* the loss of the RDE channel ends the process
RdeLost_fatal ==
    /\ state = "running"
    /\ ibuf_rde # NULL
    /\ Die("fatal")

\* handle_pollfd on the RDE channel returned -1
RdeLost ==
    /\ state = "running"
    /\ ibuf_rde # NULL
    /\ ibuf_rde' = NULL
    /\ Live /\ Silent
    /\ logged' = <<"RTR: Lost connection to RDE">>
    /\ UNCHANGED <<sessions, conf, nconf, aspa, History>>

\* handle_pollfd on the parent channel returned -1
ParentLost ==
    /\ state = "running"
    /\ Die("fatal")

\* the tests that decide whether a tick calls rtr_recalc
tick_recalc_always(n) == TRUE
tick_recalc_due(n) == n # 0

\* the expire timer is due
ExpireTimer ==
    /\ state = "running"
    /\ expire_timer <= now
    /\ expire_timer' = timer_set(now, EXPIRE_TIMEOUT)
    /\ LET er == rtr_expire_roas(conf.roa, now)
           c1 == [conf EXCEPT !.roa = er.tree]
       IN  \E o1 \in (IF tick_recalc_due(er.recalc) THEN RecalcOutcomes(c1, ibuf_rde)
                                                    ELSE NoRecalc(c1)) :
               IF o1.status # "ok"
               THEN /\ conf' = o1.live
                    /\ state' = o1.status
                    /\ rde_out' = <<>>
                    /\ expired' = <<er.recalc, 0>>
                    /\ recalcs' = 1
               ELSE \E ea \in {rtr_expire_aspa(o1.live.aspa, now)} :
                    \E o2 \in (IF tick_recalc_due(ea.recalc)
                               THEN RecalcOutcomes([o1.live EXCEPT !.aspa = ea.tree], ibuf_rde)
                               ELSE NoRecalc([o1.live EXCEPT !.aspa = ea.tree])) :
                        /\ conf' = o2.live
                        /\ state' = IF o2.status = "ok" THEN "running" ELSE o2.status
                        /\ rde_out' = IF o2.status = "ok" THEN o1.out \o o2.out ELSE <<>>
                        /\ expired' = <<er.recalc, ea.recalc>>
                        /\ recalcs' = (IF tick_recalc_due(er.recalc) THEN 1 ELSE 0)
                                      + (IF tick_recalc_due(ea.recalc) THEN 1 ELSE 0)
    /\ main_out' = <<>>
    /\ logged' = <<>>
    /\ closed' = {}
    /\ UNCHANGED <<nconf, aspa, ibuf_rde, now, History, rtr_quit, pc, sessions>>
    /\ UNCHANGED harness

ParentMsg ==
    \/ \E fd \in RdeFds : SOCKET_CONN_RTR(fd)
    \/ \E lenok \in BOOLEAN : RECONF_CONF(lenok)
    \/ \E lenok \in BOOLEAN, roa \in RoaItems : RECONF_ROA_ITEM(lenok, roa)
    \/ \E lenok \in BOOLEAN, hdr \in AspaHeaders : RECONF_ASPA(lenok, hdr)
    \/ \E tas \in TasPayloads : RECONF_ASPA_TAS(tas)
    \/ \E aids \in AidPayloads : RECONF_ASPA_TAS_AID(aids)
    \/ RECONF_ASPA_DONE
    \/ RECONF_DRAIN
    \/ RECONF_DONE

Next ==
    \/ ParentMsg
    \/ Elapse
    \/ RdeLost
    \/ ParentLost
    \/ ExpireTimer

Spec == Init /\ [][Next]_vars

----------------------------------------------------------------------------
(* Reconfiguration: what the handler guarantees *)

Elems(seq) == {seq[i] : i \in 1..Len(seq)}

\* one of the messages that assemble the staged config arrives
StagingMsg ==
    \/ \E lenok \in BOOLEAN, roa \in RoaItems : RECONF_ROA_ITEM(lenok, roa)
    \/ \E lenok \in BOOLEAN, hdr \in AspaHeaders : RECONF_ASPA(lenok, hdr)
    \/ \E tas \in TasPayloads : RECONF_ASPA_TAS(tas)
    \/ \E aids \in AidPayloads : RECONF_ASPA_TAS_AID(aids)
    \/ RECONF_ASPA_DONE

CommitEcho == <<Imsg("IMSG_RECONF_DONE", <<>>)>>

\* C1: between a begin and its commit, a RoaItem, AspaHeader, AspaProviders,
\* AspaFamilyMask or AspaDone message changes neither the active ROA tree nor
\* the active ASPA tree and queues nothing for the RDE.  (Stated from the
\* other end: while a staged config is pending, a step that changes the
\* active config or queues something for the RDE is not the handling of one
\* of these messages.)
C1_StagingLeavesActive ==
    [][(nconf # NULL /\ (conf' # conf \/ rde_out' # <<>>)) => ~StagingMsg]_vars

\* a config is being staged next to a different, non-empty active one
C1_Witness ==
    /\ state = "running"
    /\ nconf # NULL
    /\ Deref(nconf).roa # <<>>
    /\ Deref(nconf).aspa # <<>>
    /\ conf.roa # <<>>
    /\ conf.aspa # <<>>
    /\ conf.roa # Deref(nconf).roa
    /\ conf.aspa # Deref(nconf).aspa

KeepRoa(roa, t) == roa.expires = 0 \/ roa.expires > t
KeepAspa(set, t) == set.expires = 0 \/ set.expires > t

\* the elements of a tree that a pass at time t leaves, in order
RECURSIVE KeptRoas(_, _)
KeptRoas(tree, t) ==
    IF tree = <<>> THEN <<>>
    ELSE (IF KeepRoa(Head(tree), t) THEN <<Head(tree)>> ELSE <<>>)
         \o KeptRoas(Tail(tree), t)

RECURSIVE KeptAspas(_, _)
KeptAspas(tree, t) ==
    IF tree = <<>> THEN <<>>
    ELSE (IF KeepAspa(Head(tree), t) THEN <<Head(tree)>> ELSE <<>>)
         \o KeptAspas(Tail(tree), t)

\* C2: when a commit completes, the active ROA tree holds exactly the ROA
\* items received since the begin, and the active ASPA tree exactly the staged
\* sets, in both cases without those whose non-zero expiry is <= the commit
\* time; nothing else of the previous active store is left, and no staged
\* config remains.
C2_CommitInstallsStaged ==
    [][(nconf # NULL /\ state' = "running" /\ main_out' = CommitEcho /\ RECONF_DONE) =>
        /\ Elems(conf'.roa) = {r \in recv_roa : KeepRoa(r, now)}
        /\ conf'.roa = KeptRoas(Deref(nconf).roa, now)
        /\ conf'.aspa = KeptAspas(Deref(nconf).aspa, now)
        /\ nconf' = NULL]_vars

\* a commit has just installed some entries and dropped expired ones
C2_Witness ==
    /\ state = "running"
    /\ main_out = CommitEcho
    /\ expired[1] > 0
    /\ expired[2] > 0
    /\ conf.roa # <<>>

\* C3 as stated: a begin of the right size that finds a staged config pending
\* ends the process.
C3_SecondBeginFatal ==
    [][(nconf # NULL /\ RECONF_CONF(TRUE)) => state' = "fatal"]_vars

\* C3 as the code has it: a begin of the right size that finds a staged config
\* pending is accepted; the process keeps running with a fresh, empty staged
\* config, and the active store is as before.
C3_SecondBeginRestarts ==
    [][(nconf # NULL /\ RECONF_CONF(TRUE)) =>
        /\ state' = "running"
        /\ nconf' = Ptr(new_config)
        /\ conf' = conf]_vars

\* the engine runs on after a begin that found a staged config pending
C3_Witness ==
    /\ state = "running"
    /\ rebegun
    /\ nconf = Ptr(new_config)

\* C4: when a begin arrived while a staged config was pending, what the next
\* commit installs was received after that begin: every installed ROA is an
\* item received since then, and no installed ASPA set was assembled from a
\* header older than that begin.
C4_CommitOnlySinceBegin ==
    (state = "running" /\ rebegun /\ main_out = CommitEcho) =>
        /\ Elems(conf.roa) \subseteq recv_roa
        /\ old_as = {}

\* C5: an ASPA header of the right size is accepted whenever no header has
\* arrived since the most recent begin or commit without its done.
C5_HeaderAcceptedAfterRestart ==
    [][((aspa = NULL \/ aspa_old) /\ (\E hdr \in AspaHeaders : RECONF_ASPA(TRUE, hdr)))
        => state' = "running"]_vars

----------------------------------------------------------------------------
(* rtr_aspa_insert on its own: two sets merged into an empty tree, in both *)
(* orders                                                                  *)

ProviderAS == {64500, 64501}
AidVals == {AID_UNSPEC, AID_INET, AID_INET6}

MergeSets(asnums) ==
    UNION {{[expires |-> 0, as |-> a, num |-> n, tas |-> Ptr(t), tas_aid |-> Ptr(d)] :
               a \in asnums, t \in [1..n -> ProviderAS], d \in [1..n -> AidVals]} :
           n \in 0..MaxNum}

MergeInit ==
    /\ EngineInit
    /\ t_in \in MergeSets({65001}) \X MergeSets({65001, 65002})
    /\ t_res = <<>>
    /\ t_pc = 0

\* each of the two sets goes into an empty tree of its own
MergeFirst ==
    /\ t_pc = 0
    /\ \E a \in {rtr_aspa_insert(<<>>, t_in[1])}, b \in {rtr_aspa_insert(<<>>, t_in[2])} :
           t_res' = [ab |-> a.at, ba |-> b.at, first |-> a.at,
                     ok |-> a.status = "ok" /\ b.status = "ok"]
    /\ t_pc' = 1
    /\ UNCHANGED <<t_in, engine>>

\* then the other set is merged into each tree
MergeSecond ==
    /\ t_pc = 1
    /\ \E a \in {rtr_aspa_insert(t_res.ab, t_in[2])}, b \in {rtr_aspa_insert(t_res.ba, t_in[1])} :
           t_res' = [ab |-> a.at, ba |-> b.at, first |-> t_res.first,
                     ok |-> t_res.ok /\ a.status = "ok" /\ b.status = "ok"]
    /\ t_pc' = 2
    /\ UNCHANGED <<t_in, engine>>

MergeNext ==
    \/ MergeFirst
    \/ MergeSecond

SpecMerge == MergeInit /\ [][MergeNext]_vars

\* C6: a set merged into an empty tree and then merged into the result once
\* more leaves the tree the first merge built.
C6_MergeIdempotent ==
    (t_pc = 2 /\ t_in[1] = t_in[2]) => (t_res.ok /\ t_res.ab = t_res.first)

\* a set of two different providers has been merged twice
C6_Witness ==
    /\ t_pc = 2
    /\ t_in[1] = t_in[2]
    /\ t_in[1].tas = Ptr(<<64501, 64500>>)
    /\ t_in[1].tas_aid = Ptr(<<AID_INET, AID_INET6>>)
    /\ Len(t_res.ab) = 1
    /\ t_res.ab[1].num = 2

OneProvider(p, aid) ==
    [expires |-> 0, as |-> 65001, num |-> 1, tas |-> Ptr(<<p>>), tas_aid |-> Ptr(<<aid>>)]

\* C7: two sets merged in either order give the same tree; an IPv4-only and
\* an IPv6-only constraint of one provider of one customer AS give the single
\* entry (provider, both).
C7_WideningCommutes ==
    (t_pc = 2) =>
        /\ t_res.ok
        /\ t_res.ab = t_res.ba
        /\ \A p \in ProviderAS :
               {t_in[1], t_in[2]} = {OneProvider(p, AID_INET), OneProvider(p, AID_INET6)}
                   => t_res.ab = <<OneProvider(p, AID_UNSPEC)>>

\* IPv4-only then IPv6-only for provider 64500 have been merged
C7_Witness ==
    /\ t_pc = 2
    /\ t_in[1] = OneProvider(64500, AID_INET)
    /\ t_in[2] = OneProvider(64500, AID_INET6)
    /\ t_res.ba = <<OneProvider(64500, AID_UNSPEC)>>

----------------------------------------------------------------------------
(* aspa_set_entry on its own: a run of entries put into one calloc'ed set *)

EntryAS == {64500, 64501, 64502}

EntryRuns == UNION {[1..n -> EntryAS \X AidVals] : n \in 0..MaxEntries}

EntryInit ==
    /\ EngineInit
    /\ t_in \in EntryRuns
    /\ t_res = [set |-> EmptyAspa(65001), prev |-> EmptyAspa(65001)]
    /\ t_pc = 0

EntryStep ==
    /\ t_pc < Len(t_in)
    /\ t_res' = [set |-> aspa_set_entry(t_res.set, t_in[t_pc + 1][1], t_in[t_pc + 1][2]),
                 prev |-> t_res.set]
    /\ t_pc' = t_pc + 1
    /\ UNCHANGED <<t_in, engine>>

EntryNext == EntryStep

SpecEntry == EntryInit /\ [][EntryNext]_vars

StrictlyAscending(seq) == \A i \in 1..Len(seq) - 1 : seq[i] < seq[i + 1]

\* C8: after every aspa_set_entry the provider array is strictly ascending
\* and as long as the family array; a provider that was absent stands at one
\* position with the family it came with, the others as before around it; a
\* provider that was present leaves the array as long as it was, with its
\* family kept when equal to the new one and set to "both" otherwise.
C8_ProvidersStaySorted ==
    (t_pc >= 1) =>
        LET tas == ArrayOf(t_res.set.tas)
            aid == ArrayOf(t_res.set.tas_aid)
            ptas == ArrayOf(t_res.prev.tas)
            paid == ArrayOf(t_res.prev.tas_aid)
            asnum == t_in[t_pc][1]
            naid == t_in[t_pc][2]
        IN  /\ StrictlyAscending(tas)
            /\ Len(tas) = t_res.set.num
            /\ Len(aid) = t_res.set.num
            /\ IF asnum \in Elems(ptas)
               THEN /\ tas = ptas
                    /\ Len(aid) = Len(paid)
                    /\ \A i \in 1..Len(tas) :
                           aid[i] = IF tas[i] # asnum \/ paid[i] = naid
                                    THEN paid[i] ELSE AID_UNSPEC
               ELSE \E k \in 1..Len(tas) :
                        /\ tas[k] = asnum
                        /\ aid[k] = naid
                        /\ RemoveAt(tas, k) = ptas
                        /\ RemoveAt(aid, k) = paid

\* a provider went in front of another one and the other one was widened
C8_Witness ==
    /\ t_pc = 3
    /\ t_in = <<<<64501, AID_INET>>, <<64500, AID_INET6>>, <<64501, AID_INET6>>>>
    /\ t_res.prev.tas_aid = Ptr(<<AID_INET6, AID_INET>>)
    /\ t_res.set.tas = Ptr(<<64500, 64501>>)
    /\ t_res.set.tas_aid = Ptr(<<AID_INET6, AID_UNSPEC>>)

----------------------------------------------------------------------------
(* rtr_roa_insert on its own: a run of ROAs put into one empty tree *)

RoaPool ==
    {Roa(AID_INET, 10 * 2^24, 8, 24, 65000, 0),
     Roa(AID_INET, 10 * 2^24, 8, 25, 65000, 0),
     Roa(AID_INET, 100 * 2^24 + 64 * 2^16, 10, 24, 65002, EXPIRE_TIMEOUT),
     Roa(AID_INET6, 8193 * 2^16 + 3512, 32, 48, 65001, EXPIRE_TIMEOUT)}

RoaRuns == UNION {[1..n -> RoaPool] : n \in 0..MaxIns}

RoaInsertInit ==
    /\ EngineInit
    /\ t_in \in RoaRuns
    /\ t_res = [tree |-> <<>>, prev |-> <<>>]
    /\ t_pc = 0

RoaInsertStep ==
    /\ t_pc < Len(t_in)
    /\ t_res' = [tree |-> rtr_roa_insert(t_res.tree, t_in[t_pc + 1]), prev |-> t_res.tree]
    /\ t_pc' = t_pc + 1
    /\ UNCHANGED <<t_in, engine>>

RoaInsertNext == RoaInsertStep

SpecRoaInsert == RoaInsertInit /\ [][RoaInsertNext]_vars

\* C9: a tree never holds two ROAs with the same field tuple; inserting a ROA
\* whose field tuple is in the tree leaves the tree as it was, and the tree
\* holds each inserted ROA once.
C9_DuplicateCollapse ==
    LET tree == t_res.tree
    IN  /\ \A i, j \in 1..Len(tree) : roa_cmp(tree[i], tree[j]) = 0 => i = j
        /\ Elems(tree) = {t_in[i] : i \in 1..t_pc}
        /\ Len(tree) = Cardinality({t_in[i] : i \in 1..t_pc})
        /\ (t_pc >= 1 /\ t_in[t_pc] \in Elems(t_res.prev)) => tree = t_res.prev

\* the ROA of the spec's example went in twice, with another one in between
C9_Witness ==
    /\ t_pc = 3
    /\ t_in[1] = Roa(AID_INET, 10 * 2^24, 8, 24, 65000, 0)
    /\ t_in[3] = t_in[1]
    /\ t_in[2] # t_in[1]
    /\ Len(t_res.tree) = 2

----------------------------------------------------------------------------
(* rtr_expire_roas and rtr_expire_aspa on their own *)

ExpiryVals == {0, EXPIRE_TIMEOUT - 1, EXPIRE_TIMEOUT, EXPIRE_TIMEOUT + 1}

ExpireRoas == {Roa(AID_INET, 10 * 2^24, 8, 24, 65000 + e, e) : e \in ExpiryVals}

ExpireAspas ==
    {[expires |-> e, as |-> 65000 + e, num |-> 1,
      tas |-> Ptr(<<64500>>), tas_aid |-> Ptr(<<AID_UNSPEC>>)] : e \in ExpiryVals}

RECURSIVE RoaTreeOf(_)
RoaTreeOf(S) ==
    IF S = {} THEN <<>>
    ELSE CHOOSE t \in {rtr_roa_insert(RoaTreeOf(S \ {x}), x) : x \in {CHOOSE y \in S : TRUE}} : TRUE

RECURSIVE AspaTreeOf(_)
AspaTreeOf(S) ==
    IF S = {} THEN <<>>
    ELSE CHOOSE t \in {aspa_tree_RB_INSERT(AspaTreeOf(S \ {x}), x) : x \in {CHOOSE y \in S : TRUE}} : TRUE

ExpireInit ==
    /\ EngineInit
    /\ t_in \in {[roa |-> RoaTreeOf(R), aspa |-> AspaTreeOf(A), now |-> t] :
                    R \in SUBSET ExpireRoas, A \in SUBSET ExpireAspas,
                    t \in {EXPIRE_TIMEOUT - 1, EXPIRE_TIMEOUT, EXPIRE_TIMEOUT + 1}}
    /\ t_res = <<>>
    /\ t_pc = 0

ExpireStep ==
    /\ t_pc = 0
    /\ t_res' = [roa |-> rtr_expire_roas(t_in.roa, t_in.now),
                 aspa |-> rtr_expire_aspa(t_in.aspa, t_in.now)]
    /\ t_pc' = 1
    /\ UNCHANGED <<t_in, engine>>

ExpireNext == ExpireStep

SpecExpire == ExpireInit /\ [][ExpireNext]_vars

\* C10: an expiry pass at time now leaves, in order and unchanged, exactly the
\* entries whose expiry is 0 or later than now, and returns the number of
\* entries it removed; this for the ROA tree and for the ASPA tree.
C10_ExpireExact ==
    (t_pc = 1) =>
        /\ t_res.roa.tree = KeptRoas(t_in.roa, t_in.now)
        /\ t_res.roa.recalc = Cardinality({r \in Elems(t_in.roa) : ~KeepRoa(r, t_in.now)})
        /\ t_res.aspa.tree = KeptAspas(t_in.aspa, t_in.now)
        /\ t_res.aspa.recalc = Cardinality({a \in Elems(t_in.aspa) : ~KeepAspa(a, t_in.now)})

\* a pass at the very second of an expiry removed two of four entries of each
\* tree
C10_Witness ==
    /\ t_pc = 1
    /\ t_in.now = EXPIRE_TIMEOUT
    /\ Len(t_in.roa) = 4
    /\ Len(t_in.aspa) = 4
    /\ t_res.roa.recalc = 2
    /\ t_res.aspa.recalc = 2
    /\ Len(t_res.roa.tree) = 2
    /\ Len(t_res.aspa.tree) = 2

----------------------------------------------------------------------------
(* The expiry timer and the commit: what is removed, what is recalculated *)

\* a step of the expire timer is the only one that moves its deadline
TickStep == expire_timer' # expire_timer

DueRoas(c, t) == {r \in Elems(c.roa) : ~KeepRoa(r, t)}
DueAspas(c, t) == {a \in Elems(c.aspa) : ~KeepAspa(a, t)}

\* the categories (ROA, ASPA) with an entry a pass at time t removes
DueCategories(c, t) ==
    (IF DueRoas(c, t) # {} THEN 1 ELSE 0) + (IF DueAspas(c, t) # {} THEN 1 ELSE 0)

\* C11: a timer tick removes every active entry whose non-zero expiry lies
\* before the tick (expires = now - 1 included) and, when the entries of one
\* category were due, calls for exactly one recalculation; an entry with
\* expires = 0 is removed neither by a tick nor by the expiry pass of a commit.
C11_TickRemovesDue ==
    [][/\ TickStep =>
            /\ DueRoas(conf', now) = {}
            /\ DueAspas(conf', now) = {}
            /\ {r \in Elems(conf.roa) : r.expires = 0} \subseteq Elems(conf'.roa)
            /\ {a \in Elems(conf.aspa) : a.expires = 0} \subseteq Elems(conf'.aspa)
            /\ DueCategories(conf, now) = 1 => recalcs' = 1
       /\ (nconf # NULL /\ main_out' = CommitEcho) =>
            /\ {r \in recv_roa : r.expires = 0} \subseteq Elems(conf'.roa)
            /\ {a \in Elems(Deref(nconf).aspa) : a.expires = 0} \subseteq Elems(conf'.aspa)
      ]_vars

\* C12: a timer tick calls for one recalculation per category (ROA, ASPA) of
\* which it removed an entry; a tick that removes nothing calls for none and
\* queues nothing for the RDE.
C12_TickRecalcPerCategory ==
    [][TickStep =>
        /\ recalcs' = DueCategories(conf, now)
        /\ expired' = <<Cardinality(DueRoas(conf, now)), Cardinality(DueAspas(conf, now))>>
        /\ DueCategories(conf, now) = 0 => rde_out' = <<>>
      ]_vars

OfType(msgs, type) == {i \in 1..Len(msgs) : msgs[i].type = type}

\* C13: the messages a commit queues for the RDE hold no ROA whose non-zero
\* expiry is <= the commit time and no ASPA set of a customer AS whose staged
\* set had such an expiry.
C13_CommitSnapshotUnexpired ==
    [][(nconf # NULL /\ main_out' = CommitEcho) =>
        /\ \A i \in OfType(rde_out', "IMSG_RECONF_ROA_ITEM") :
               rde_out'[i].data[6] = 0 \/ rde_out'[i].data[6] > now
        /\ \A i \in OfType(rde_out', "IMSG_RECONF_ASPA") :
               \A a \in DueAspas(Deref(nconf), now) : rde_out'[i].data[1] # a.as
        /\ Cardinality(OfType(rde_out', "IMSG_RECONF_ROA_ITEM"))
               = Cardinality({r \in recv_roa : KeepRoa(r, now)})
      ]_vars

\* a commit dropped an expired ROA and an expired ASPA set and published a ROA
C13_Witness ==
    /\ state = "running"
    /\ main_out = CommitEcho
    /\ expired = <<1, 1>>
    /\ OfType(rde_out, "IMSG_RECONF_ROA_ITEM") # {}
    /\ OfType(rde_out, "IMSG_RECONF_ASPA") = {}

\* C14: every commit calls rtr_recalc exactly once and then queues exactly
\* one IMSG_RECONF_DONE for the parent.
C14_CommitRecalcThenAck ==
    [][(state = "running" /\ nconf # NULL /\ now' = now /\ expire_timer' = expire_timer
            /\ RECONF_DONE) =>
        /\ recalcs' = 1
        /\ main_out' = CommitEcho]_vars

----------------------------------------------------------------------------
(* rtr_recalc on its own: one call on an active store *)

\* how the family constraints of the providers of a set are chosen: none
\* constrained, all IPv4-only, both | IPv4 | IPv6 in turn, only the last one
\* IPv6-only
AidPatterns == {"none", "v4", "mixed", "last"}

PatternAid(pat, i, n) ==
    IF pat = "none" THEN AID_UNSPEC
    ELSE IF pat = "v4" THEN AID_INET
    ELSE IF pat = "mixed" THEN (IF i % 3 = 1 THEN AID_INET
                                ELSE IF i % 3 = 2 THEN AID_INET6 ELSE AID_UNSPEC)
    ELSE IF i = n THEN AID_INET6 ELSE AID_UNSPEC

\* an active set of customer AS as with providers 64501 .. 64500+n; a set
\* without providers is as calloc left it, both arrays NULL
ActiveSet(as, n, pat) ==
    [expires |-> 0, as |-> as, num |-> n,
     tas |-> IF n = 0 THEN NULL ELSE Ptr([i \in 1..n |-> 64500 + i]),
     tas_aid |-> IF n = 0 THEN NULL
                 ELSE Ptr([i \in 1..n |-> PatternAid(pat, i, n)])]

RecalcAspaTrees ==
    {<<>>}
    \cup {<<ActiveSet(65001, n, pat)>> : n \in 0..MaxProv, pat \in AidPatterns}
    \cup {<<ActiveSet(65001, n, pat), ActiveSet(65002, n2, pat2)>> :
             n \in 0..MaxProv, pat \in AidPatterns, n2 \in {4, MaxProv}, pat2 \in {"none", "mixed"}}

RecalcInit ==
    /\ EngineInit
    /\ t_in \in {[conf |-> [roa |-> RoaTreeOf(R), aspa |-> A], rde |-> d] :
                    R \in SUBSET RoaItems, A \in RecalcAspaTrees, d \in {NULL, Ptr(4)}}
    /\ t_res = <<>>
    /\ t_pc = 0

RecalcStep ==
    /\ t_pc = 0
    /\ \E o \in RecalcOutcomes(t_in.conf, t_in.rde) : t_res' = o
    /\ t_pc' = 1
    /\ UNCHANGED <<t_in, engine>>

RecalcNext == RecalcStep

SpecRecalc == RecalcInit /\ [][RecalcNext]_vars

\* a recalculation that returned
Recalculated == t_pc = 1 /\ t_res.status = "ok"

Constrained(set) ==
    \E i \in 1..set.num : Deref(set.tas_aid)[i] \in {AID_INET, AID_INET6}

\* C15: when rtr_recalc returns, the active ROA tree and the active ASPA
\* tree (customer AS, provider arrays, per-provider constraints, expiry) are
\* what they were when it was called.
C15_RecalcLeavesStore ==
    Recalculated => t_res.live = t_in.conf

\* a store with a 17-provider set of mixed constraints has been recalculated
C15_Witness ==
    /\ Recalculated
    /\ Len(t_in.conf.aspa) = 2
    /\ t_in.conf.aspa[1] = ActiveSet(65001, 17, "mixed")
    /\ t_in.conf.roa # <<>>
    /\ Len(t_res.out) > 8

\* what the receiver reads off a stream

\* the positions of the messages that begin an ASPA set, in order
RECURSIVE SetStarts(_, _)
SetStarts(out, i) ==
    IF i > Len(out) THEN <<>>
    ELSE (IF out[i].type = "IMSG_RECONF_ASPA" THEN <<i>> ELSE <<>>) \o SetStarts(out, i + 1)

\* the set that begins at position i: its provider array is the payload of
\* the next message, its family mask that of the one after it unless that
\* one ends the set
ProvidersAt(out, i) == out[i + 1].data
MaskAt(out, i) ==
    IF out[i + 2].type = "IMSG_RECONF_ASPA_DONE" THEN NULL ELSE Ptr(out[i + 2].data)

\* payload bytes of the arrays of the set that begins at position i
SetBytes(out, i) == 4 * Len(ProvidersAt(out, i)) + Len(ArrayOf(MaskAt(out, i)))

StreamBytes(out) ==
    SeqSum([k \in 1..Len(out) |->
               IF out[k].type = "IMSG_RECONF_ASPA" THEN SetBytes(out, k) ELSE 0])

\* what message i of a stream is: within a set the message after the begin
\* is its provider array and a message between that and the end is its
\* family mask, whatever kind it is sent under; otherwise its kind
Role(out, i) ==
    IF i > 1 /\ out[i - 1].type = "IMSG_RECONF_ASPA" THEN "providers"
    ELSE IF i > 2 /\ out[i - 2].type = "IMSG_RECONF_ASPA"
                  /\ out[i].type # "IMSG_RECONF_ASPA_DONE" THEN "family mask"
    ELSE out[i].type

\* what a set is streamed as
SetRoles(set) ==
    <<"IMSG_RECONF_ASPA", "providers">>
    \o (IF Constrained(set) THEN <<"family mask">> ELSE <<>>)
    \o <<"IMSG_RECONF_ASPA_DONE">>

StreamRoles(c) ==
    <<"IMSG_RECONF_ROA_SET">>
    \o [k \in 1..Len(c.roa) |-> "IMSG_RECONF_ROA_ITEM"]
    \o <<"IMSG_RECONF_ASPA_PREP">>
    \o Flatten([k \in 1..Len(c.aspa) |-> SetRoles(c.aspa[k])])
    \o <<"IMSG_RECONF_DONE">>

\* C16: the stream of a recalculation is one ROA set-begin, one item per ROA,
\* one prep, then per ASPA set in ascending customer AS its begin (customer
\* AS, count), its providers, its family mask when a provider is
\* single-family-constrained, and its end, then one done; the messages of a
\* set are contiguous.
C16_StreamWellFormed ==
    Recalculated =>
        /\ [i \in 1..Len(t_res.out) |-> Role(t_res.out, i)] = StreamRoles(t_in.conf)
        /\ [k \in 1..Len(t_in.conf.roa) |-> t_res.out[k + 1].data]
               = [k \in 1..Len(t_in.conf.roa) |-> RoaData(t_in.conf.roa[k])]
        /\ [k \in 1..Len(SetStarts(t_res.out, 1)) |-> t_res.out[SetStarts(t_res.out, 1)[k]].data]
               = [k \in 1..Len(t_in.conf.aspa) |-> <<t_in.conf.aspa[k].as, t_in.conf.aspa[k].num>>]
        /\ [k \in 1..Len(SetStarts(t_res.out, 1)) |-> ProvidersAt(t_res.out, SetStarts(t_res.out, 1)[k])]
               = [k \in 1..Len(t_in.conf.aspa) |-> ArrayOf(t_in.conf.aspa[k].tas)]

\* two ROAs, a set with a family mask and a set without one were streamed
C16_Witness ==
    /\ Recalculated
    /\ Len(t_in.conf.roa) = 2
    /\ Len(t_in.conf.aspa) = 2
    /\ Constrained(t_in.conf.aspa[1])
    /\ ~Constrained(t_in.conf.aspa[2])
    /\ Len(t_res.out) = 12
    /\ Role(t_res.out, 7) = "family mask"

AspaKinds == {"IMSG_RECONF_ASPA", "IMSG_RECONF_ASPA_TAS", "IMSG_RECONF_ASPA_TAS_AID",
              "IMSG_RECONF_ASPA_DONE"}

\* C17: a stream holds one prep message, in front of every message of an
\* ASPA set; its entry count is the number of sets that follow and its byte
\* size the sum of the payload bytes of their provider arrays and family
\* masks.
C17_PrepDeclaresStream ==
    Recalculated =>
        /\ Cardinality(OfType(t_res.out, "IMSG_RECONF_ASPA_PREP")) = 1
        /\ \A p \in OfType(t_res.out, "IMSG_RECONF_ASPA_PREP") :
               /\ \A i \in 1..Len(t_res.out) : t_res.out[i].type \in AspaKinds => p < i
               /\ t_res.out[p].data[2] = Len(SetStarts(t_res.out, 1))
               /\ t_res.out[p].data[1] = StreamBytes(t_res.out)

\* two sets with family masks of different lengths were announced by a prep
C17_Witness ==
    /\ Recalculated
    /\ Len(t_in.conf.aspa) = 2
    /\ Constrained(t_in.conf.aspa[1])
    /\ Constrained(t_in.conf.aspa[2])
    /\ t_in.conf.aspa[1].num = 3
    /\ t_in.conf.aspa[2].num = 17
    /\ \E p \in OfType(t_res.out, "IMSG_RECONF_ASPA_PREP") : t_res.out[p].data = <<83, 2>>

MaskWords(n) == (n + 15) \div 16

\* the 2-bit code of provider j (counted from 0) in a family mask given as
\* bytes: field j % 16 of word j / 16; 0 when the bytes end before it
CodeAt(mask, j) ==
    IF 4 * (j \div 16) + ((j % 16) \div 4) + 1 > Len(mask) THEN 0
    ELSE (mask[4 * (j \div 16) + ((j % 16) \div 4) + 1] \div (4 ^ (j % 4))) % 4

\* C18: for a set with a single-family-constrained provider the family mask
\* in the stream is ceil(count / 16) 32-bit words long and holds the code of
\* every provider (1 = IPv4, 2 = IPv6, 3 = both), and the prep message counts
\* ceil(count / 16) 32-bit words for it.
C18_MaskWordSized ==
    Recalculated =>
        /\ \A k \in 1..Len(t_in.conf.aspa) :
               Constrained(t_in.conf.aspa[k]) =>
                   /\ MaskAt(t_res.out, SetStarts(t_res.out, 1)[k]) # NULL
                   /\ Len(ArrayOf(MaskAt(t_res.out, SetStarts(t_res.out, 1)[k])))
                          = 4 * MaskWords(t_in.conf.aspa[k].num)
                   /\ \A j \in 1..t_in.conf.aspa[k].num :
                          CodeAt(ArrayOf(MaskAt(t_res.out, SetStarts(t_res.out, 1)[k])), j - 1)
                              = afi_code(Deref(t_in.conf.aspa[k].tas_aid)[j])
        /\ \A p \in OfType(t_res.out, "IMSG_RECONF_ASPA_PREP") :
               t_res.out[p].data[1] =
                   SeqSum([k \in 1..Len(t_in.conf.aspa) |->
                              4 * t_in.conf.aspa[k].num
                              + (IF Constrained(t_in.conf.aspa[k])
                                 THEN 4 * MaskWords(t_in.conf.aspa[k].num) ELSE 0)])

\* the constraint a code stands for; -1 for no code
CodeAid(code) ==
    IF code = 1 THEN AID_INET ELSE IF code = 2 THEN AID_INET6
    ELSE IF code = 3 THEN AID_UNSPEC ELSE -1

\* the (provider, constraint) pairs the receiver decodes for the set that
\* begins at position i
Decoded(out, i) ==
    [j \in 1..Len(ProvidersAt(out, i)) |->
        <<ProvidersAt(out, i)[j],
          IF MaskAt(out, i) = NULL THEN AID_UNSPEC
          ELSE CodeAid(CodeAt(Deref(MaskAt(out, i)), j - 1))>>]

\* C19: for every set of the stream, what the receiver decodes from its
\* provider array and family mask are the (provider, constraint) pairs of the
\* set in ascending provider order.
C19_MaskRoundTrip ==
    Recalculated =>
        \A k \in 1..Len(t_in.conf.aspa) :
            Decoded(t_res.out, SetStarts(t_res.out, 1)[k])
                = [j \in 1..t_in.conf.aspa[k].num |->
                      <<Deref(t_in.conf.aspa[k].tas)[j], Deref(t_in.conf.aspa[k].tas_aid)[j]>>]

\* C20: a set without a single-family-constrained provider is streamed
\* without a family mask, and a store of such sets is announced with
\* 4 bytes per provider.
C20_NoMaskWhenUnconstrained ==
    Recalculated =>
        /\ \A k \in 1..Len(t_in.conf.aspa) :
               ~Constrained(t_in.conf.aspa[k]) =>
                   /\ MaskAt(t_res.out, SetStarts(t_res.out, 1)[k]) = NULL
                   /\ SetBytes(t_res.out, SetStarts(t_res.out, 1)[k]) = 4 * t_in.conf.aspa[k].num
        /\ (\A k \in 1..Len(t_in.conf.aspa) : ~Constrained(t_in.conf.aspa[k])) =>
               \A p \in OfType(t_res.out, "IMSG_RECONF_ASPA_PREP") :
                   t_res.out[p].data[1] =
                       SeqSum([k \in 1..Len(t_in.conf.aspa) |-> 4 * t_in.conf.aspa[k].num])

\* two unconstrained sets of 16 and 17 providers were streamed
C20_Witness ==
    /\ Recalculated
    /\ t_in.conf.aspa = <<ActiveSet(65001, 16, "none"), ActiveSet(65002, 17, "none")>>
    /\ \E p \in OfType(t_res.out, "IMSG_RECONF_ASPA_PREP") : t_res.out[p].data = <<132, 2>>
    /\ Len(SetStarts(t_res.out, 1)) = 2

----------------------------------------------------------------------------
(* The engine end to end: a staged set through commit and snapshot push *)

\* customer 65001 with providers 64501 (IPv4 only) and 64502 (both families)
ExampleSet ==
    [expires |-> 0, as |-> 65001, num |-> 2,
     tas |-> Ptr(<<64501, 64502>>), tas_aid |-> Ptr(<<AID_INET, AID_UNSPEC>>)]

\* C21: the commit of a staged config whose ASPA sets are the one assembled
\* from header (65001, 2), providers [64501, 64502] and family mask [IPv4 only,
\* both] leaves the engine running with that set as the active ASPA store,
\* and the snapshot pushed by the commit holds for customer 65001 a family
\* mask of one 32-bit word whose lowest 2 bits are 1 and whose next 2 bits
\* are 3.
C21_EndToEnd ==
    [][(state = "running" /\ nconf # NULL /\ Deref(nconf).aspa = <<ExampleSet>>
            /\ now' = now /\ expire_timer' = expire_timer /\ RECONF_DONE) =>
        /\ state' = "running"
        /\ conf'.aspa = <<ExampleSet>>
        /\ Len(SetStarts(rde_out', 1)) = 1
        /\ \A i \in OfType(rde_out', "IMSG_RECONF_ASPA") :
               /\ rde_out'[i].data = <<65001, 2>>
               /\ MaskAt(rde_out', i) # NULL
               /\ Len(ArrayOf(MaskAt(rde_out', i))) = 4
               /\ CodeAt(ArrayOf(MaskAt(rde_out', i)), 0) = 1
               /\ CodeAt(ArrayOf(MaskAt(rde_out', i)), 1) = 3]_vars

----------------------------------------------------------------------------
(* The channel to the RDE *)

\* C22: a step that calls rtr_recalc while there is no channel to the RDE
\* queues nothing for the RDE and leaves the engine running, without a
\* channel as before.
C22_RecalcWithoutChannel ==
    [][(state = "running" /\ ibuf_rde = NULL /\ recalcs' > 0) =>
        /\ state' = "running"
        /\ rde_out' = <<>>
        /\ ibuf_rde' = NULL]_vars

\* The loop with a parent that reconfigures ROAs, stages and commits only
\* after a begin, and keeps doing so: whenever the channel to the RDE is gone
\* it is handed over again, and again and again a config is begun and
\* committed while the channel is there.  The loop looks at the expiry timer
\* in every turn.
BeginWithChannel == ibuf_rde # NULL /\ RECONF_CONF(TRUE)
ItemBegun(roa) == nconf # NULL /\ RECONF_ROA_ITEM(TRUE, roa)
CommitBegun == nconf # NULL /\ RECONF_DONE
CommitWithChannel == ibuf_rde # NULL /\ CommitBegun

ConvergeNext ==
    \/ \E fd \in RdeFds : SOCKET_CONN_RTR(fd)
    \/ RECONF_CONF(TRUE)
    \/ \E roa \in RoaItems : ItemBegun(roa)
    \/ CommitBegun
    \/ Elapse
    \/ RdeLost
    \/ ExpireTimer

SpecConverge ==
    /\ Init
    /\ [][ConvergeNext]_vars
    /\ WF_vars(SOCKET_CONN_RTR(4))
    /\ SF_vars(BeginWithChannel)
    /\ SF_vars(CommitWithChannel)
    /\ WF_vars(ExpireTimer)

\* the last step called rtr_recalc while there was no channel to the RDE
Dropped == ibuf_rde = NULL /\ recalcs > 0

\* the last step queued a complete snapshot of the active store for the RDE
Delivered ==
    /\ state = "running"
    /\ ibuf_rde # NULL
    /\ recalcs = 1
    /\ \E o \in RecalcOutcomes(conf, ibuf_rde) : o.status = "ok" /\ rde_out = o.out

\* C23: after a recalculation without a channel to the RDE, once the channel
\* is handed over again and the parent commits again, the RDE is sent a
\* complete snapshot of the active store.
C23_Converges == Dropped ~> Delivered

----------------------------------------------------------------------------
(* rtr_dispatch_imsg_parent: what is refused *)

\* the step handles a message whose length is not the one required: a begin,
\* a ROA item or an ASPA header of the wrong size, a provider array or a
\* family array whose length is not the one the pending header declared
BadLength ==
    \/ RECONF_CONF(FALSE)
    \/ \E roa \in RoaItems : RECONF_ROA_ITEM(FALSE, roa)
    \/ \E hdr \in AspaHeaders : RECONF_ASPA(FALSE, hdr)
    \/ \E tas \in TasPayloads :
           aspa # NULL /\ Len(tas) # Deref(aspa).num /\ RECONF_ASPA_TAS(tas)
    \/ \E aids \in AidPayloads :
           aspa # NULL /\ Len(aids) # Deref(aspa).num /\ RECONF_ASPA_TAS_AID(aids)

\* C24: a message of the wrong length ends the process with fatalx and
\* changes neither the active config, nor the staged config, nor the set
\* under assembly.
C24_BadLengthFatal ==
    [][(state = "running"
            /\ (state' # "fatal" \/ conf' # conf \/ nconf' # nconf \/ aspa' # aspa))
        => ~BadLength]_vars

\* the process ended while a set declared with one provider was waiting for
\* its provider array, with staged and active ROAs in place
C24_Witness ==
    /\ state = "fatal"
    /\ aspa # NULL
    /\ Deref(aspa).num = 1
    /\ Deref(aspa).tas = NULL
    /\ nconf # NULL
    /\ Deref(nconf).roa # <<>>
    /\ conf.roa # <<>>

\* the step handles a header while a set is under assembly, or a provider
\* array, a family array or a done while none is
Unexpected ==
    \/ aspa # NULL /\ \E lenok \in BOOLEAN, hdr \in AspaHeaders : RECONF_ASPA(lenok, hdr)
    \/ aspa = NULL /\ \E tas \in TasPayloads : RECONF_ASPA_TAS(tas)
    \/ aspa = NULL /\ \E aids \in AidPayloads : RECONF_ASPA_TAS_AID(aids)
    \/ aspa = NULL /\ RECONF_ASPA_DONE

\* C25: a header that arrives while a set is under assembly, and a provider
\* array, a family array or a done that arrives while none is, end the
\* process with fatalx and change nothing.
C25_OneBuilder ==
    [][(state = "running"
            /\ (state' # "fatal" \/ conf' # conf \/ nconf' # nconf \/ aspa' # aspa))
        => ~Unexpected]_vars

\* the process ended while a complete set was waiting for its done, with
\* another set already staged
C25_Witness ==
    /\ state = "fatal"
    /\ aspa # NULL
    /\ Deref(aspa).tas # NULL
    /\ Deref(aspa).tas_aid # NULL
    /\ nconf # NULL
    /\ Deref(nconf).aspa # <<>>

\* C26: a done for a set whose customer AS is already staged logs a warning
\* and goes on: the staged config is as before, the set under assembly is
\* gone, the active config is untouched.
C26_DuplicateDiscarded ==
    [][(state = "running" /\ nconf # NULL /\ aspa # NULL
            /\ aspa_tree_RB_FIND(Deref(nconf).aspa, Deref(aspa)) # 0
            /\ now' = now /\ expire_timer' = expire_timer /\ RECONF_ASPA_DONE) =>
        /\ state' = "running"
        /\ logged' = <<"duplicate ASPA set received">>
        /\ nconf' = nconf
        /\ aspa' = NULL
        /\ conf' = conf]_vars

\* the warning was logged and the staged set of customer 65001 is the one
\* with a single provider
C26_Witness ==
    /\ state = "running"
    /\ logged = <<"duplicate ASPA set received">>
    /\ aspa = NULL
    /\ nconf # NULL
    /\ Len(Deref(nconf).aspa) = 1
    /\ Deref(nconf).aspa[1].as = 65001
    /\ Deref(nconf).aspa[1].tas = Ptr(<<64502>>)

----------------------------------------------------------------------------
(* rtr_dispatch_imsg_parent: the assembly of an ASPA set *)

\* customer 65001 with providers 64501 and 64502, assembled from a header and
\* a provider array only
NoMaskSet ==
    [expires |-> 0, as |-> 65001, num |-> 2,
     tas |-> Ptr(<<64501, 64502>>), tas_aid |-> NULL]

\* C27: the commit of a staged config whose ASPA sets are the one assembled
\* from header (65001, 2) and providers [64501, 64502], without a family
\* array, leaves the engine running with that set in the active store, and
\* the snapshot pushed to the RDE holds the set with its two providers and
\* without a family mask.
C27_NoMaskAccepted ==
    [][(state = "running" /\ nconf # NULL /\ ibuf_rde # NULL
            /\ Deref(nconf).aspa = <<NoMaskSet>>
            /\ now' = now /\ expire_timer' = expire_timer /\ RECONF_DONE) =>
        /\ state' = "running"
        /\ Len(conf'.aspa) = 1
        /\ conf'.aspa[1].as = 65001
        /\ conf'.aspa[1].tas = Ptr(<<64501, 64502>>)
        /\ Len(SetStarts(rde_out', 1)) = 1
        /\ \A i \in OfType(rde_out', "IMSG_RECONF_ASPA") :
               /\ rde_out'[i].data = <<65001, 2>>
               /\ ProvidersAt(rde_out', i) = <<64501, 64502>>
               /\ MaskAt(rde_out', i) = NULL]_vars

\* the set under assembly as a header leaves it
Begun(hdr) ==
    [expires |-> hdr.expires, as |-> hdr.as, num |-> hdr.num,
     tas |-> NULL, tas_aid |-> NULL]

\* the ASPA sets of a staged config given as a pointer
StagedAspas(n) == IF n = NULL THEN {} ELSE Elems(Deref(n).aspa)

\* C28: the set under assembly changes only by a header, which starts it
\* with the header's customer AS, count and expiry and no arrays, by a
\* provider array or a family array of the declared length, which replaces
\* that array and nothing else, and by a done, which ends it; a set that
\* appears in the staged config is the set under assembly as it was when its
\* done arrived.
C28_Reassembly ==
    [][(state = "running" /\ state' = "running") =>
        /\ (aspa' # aspa =>
               \/ aspa = NULL /\ \E hdr \in AspaHeaders : aspa' = Ptr(Begun(hdr))
               \/ /\ aspa # NULL
                  /\ \E tas \in TasPayloads :
                         /\ Len(tas) = Deref(aspa).num
                         /\ aspa' = Ptr([Deref(aspa) EXCEPT !.tas = Ptr(tas)])
               \/ /\ aspa # NULL
                  /\ \E aids \in AidPayloads :
                         /\ Len(aids) = Deref(aspa).num
                         /\ aspa' = Ptr([Deref(aspa) EXCEPT !.tas_aid = Ptr(aids)])
               \/ /\ aspa # NULL
                  /\ aspa' = NULL
                  /\ nconf # NULL
                  /\ nconf' # NULL
                  /\ StagedAspas(nconf') \subseteq StagedAspas(nconf) \cup {Deref(aspa)}
                  /\ StagedAspas(nconf) \subseteq StagedAspas(nconf'))
        /\ (StagedAspas(nconf') \ StagedAspas(nconf) # {} =>
               /\ aspa # NULL
               /\ aspa' = NULL
               /\ StagedAspas(nconf') \ StagedAspas(nconf) = {Deref(aspa)})]_vars

\* the set of the three messages is staged and nothing is under assembly
C28_Witness ==
    /\ state = "running"
    /\ aspa = NULL
    /\ logged = <<>>
    /\ nconf # NULL
    /\ Deref(nconf).aspa = <<ExampleSet>>
    /\ conf.aspa = <<>>

----------------------------------------------------------------------------
(* rtr_main: the two channels *)

\* C29: the loss of the channel to the parent ends the process with fatalx;
\* the loss of the channel to the RDE is logged as a warning and leaves the
\* process running without that channel, with its configs, the set under
\* assembly and the timer as they were.
C29_ChannelLoss ==
    [][/\ (state = "running" /\ state' # "fatal") => ~ParentLost
       /\ (state = "running" /\ ibuf_rde # NULL /\ now' = now /\ RdeLost) =>
              /\ state' = "running"
              /\ logged' = <<"RTR: Lost connection to RDE">>
              /\ ibuf_rde' = NULL
              /\ conf' = conf
              /\ nconf' = nconf
              /\ aspa' = aspa
              /\ expire_timer' = expire_timer]_vars

\* the parent was answered after the channel to the RDE, over which a
\* commit had been pushed, was lost
C29_Witness ==
    /\ state = "running"
    /\ ibuf_rde = NULL
    /\ conf.roa # <<>>
    /\ main_out = <<Imsg("IMSG_RECONF_DRAIN", <<>>)>>

----------------------------------------------------------------------------
(* rtr_main: the expiry timer *)

\* the loop under the parent's ROA traffic, well-formed or not; it tests the
\* timer in every iteration
TimerNext ==
    \/ \E fd \in RdeFds : SOCKET_CONN_RTR(fd)
    \/ \E lenok \in BOOLEAN : RECONF_CONF(lenok)
    \/ \E lenok \in BOOLEAN, roa \in RoaItems : RECONF_ROA_ITEM(lenok, roa)
    \/ RECONF_DRAIN
    \/ RECONF_DONE
    \/ Elapse
    \/ RdeLost
    \/ ParentLost
    \/ ExpireTimer

SpecTimer == Init /\ [][TimerNext]_vars /\ WF_vars(ExpireTimer)

TimerDue == state = "running" /\ expire_timer <= now

\* C30: while the process runs the timer is set, to a time the wait has not
\* passed and that is at most 300 s away; a tick sets it to 300 s after the
\* tick; and whatever the parent sends, a timer that is due is followed by
\* its tick.
C30_TimerKeepsRunning ==
    /\ [](state = "running" => now <= expire_timer /\ expire_timer <= now + EXPIRE_TIMEOUT)
    /\ [][(state = "running" /\ expire_timer <= now /\ now' = now /\ ExpireTimer) =>
              expire_timer' = now + EXPIRE_TIMEOUT]_vars
    /\ (TimerDue ~> ~TimerDue)

\* the first tick is over and a reconfiguration is under way
C30_Witness ==
    /\ state = "running"
    /\ now = EXPIRE_TIMEOUT
    /\ expire_timer = 2 * EXPIRE_TIMEOUT
    /\ nconf # NULL
    /\ Deref(nconf).roa # <<>>

----------------------------------------------------------------------------
(* The session messages of rtr_dispatch_imsg_parent *)

\* the ids (imsg.hdr.peerid) and descriptors the parent sends with them
RtrIds == {1, 2}
SessionFds == {-1, 5, 6}

\* the pid of the bgpctl that asked (imsg.hdr.pid)
CtlPids == {0, 4711}

\* a message composed with a peerid and a pid in its header, without a
\* descriptor
ImsgPid(type, id, pid, data) ==
    [type |-> type, peerid |-> id, pid |-> pid, data |-> data]

\* log_warnx("...: unknown rtr id %d", imsg.hdr.peerid)
unknown_rtr_id(type, id) == type \o ": unknown rtr id " \o ToString(id)

\* rtr_show(rs, pid): the reply goes to the parent with the pid of the asker
rtr_show(rs, pid) ==
    <<ImsgPid("IMSG_CTL_SHOW_RTR", rs.id, pid, <<rs.id, rs.fd>>)>>

\* a step of the dispatcher that only deals with sessions
SessionStep ==
    /\ state' = "running"
    /\ rde_out' = <<>>
    /\ expired' = <<0, 0>>
    /\ recalcs' = 0
    /\ UNCHANGED <<conf, nconf, aspa, ibuf_rde, now, expire_timer, History>>
    /\ UNCHANGED <<rtr_quit, pc>>
    /\ UNCHANGED harness

\* IMSG_SOCKET_CONN: the descriptor is handed to the session, whether or
\* not the session has a connection already
SOCKET_CONN(id, fd) ==
    /\ state = "running"
    /\ SessionStep
    /\ main_out' = <<>>
    /\ \E rs \in {rtr_get(sessions, id)} :
         IF fd = -1
         THEN /\ logged' = <<"expected to receive imsg fd but didn't receive any">>
              /\ closed' = {}
              /\ UNCHANGED sessions
         ELSE IF rs = NULL
         THEN /\ logged' = <<unknown_rtr_id("IMSG_SOCKET_CONN", id)>>
              /\ closed' = {fd}
              /\ UNCHANGED sessions
         ELSE /\ logged' = <<>>
              /\ closed' = {}
              /\ sessions' = rtr_open(sessions, Deref(rs), fd)

RECONF_RTR_CONFIG(lenok, id) ==
    /\ state = "running"
    /\ IF ~lenok THEN Die("fatal")
       ELSE /\ Live /\ Quiet
            /\ \E rs \in {rtr_get(sessions, id)} :
                 sessions' = IF rs = NULL THEN rtr_new(sessions, id)
                             ELSE rtr_config_keep(sessions, Deref(rs))
            /\ UNCHANGED <<conf, nconf, aspa, ibuf_rde, History>>

\* a query for an unknown session ends the process
CTL_SHOW_RTR_fatal(id, pid) ==
    /\ state = "running"
    /\ \E rs \in {rtr_get(sessions, id)} :
         IF rs = NULL THEN Die("fatal")
         ELSE /\ SessionStep
              /\ logged' = <<>>
              /\ main_out' = rtr_show(Deref(rs), pid)
              /\ closed' = {}
              /\ UNCHANGED sessions

CTL_SHOW_RTR(id, pid) ==
    /\ state = "running"
    /\ SessionStep
    /\ closed' = {}
    /\ UNCHANGED sessions
    /\ \E rs \in {rtr_get(sessions, id)} :
         IF rs = NULL
         THEN /\ logged' = <<unknown_rtr_id("IMSG_CTL_SHOW_RTR", id)>>
              /\ main_out' = <<>>
         ELSE /\ logged' = <<>>
              /\ main_out' = rtr_show(Deref(rs), pid)

CTL_END(pid) ==
    /\ state = "running"
    /\ SessionStep
    /\ closed' = {}
    /\ logged' = <<>>
    /\ main_out' = <<ImsgPid("IMSG_CTL_END", 0, pid, <<>>)>>
    /\ UNCHANGED sessions

\* rtr_imsg_compose(type, id, pid, data, datalen): the session layer queues
\* a message on the channel to the parent
rtr_imsg_compose(type, id, pid, data) ==
    /\ state = "running"
    /\ SessionStep
    /\ closed' = {}
    /\ logged' = <<>>
    /\ main_out' = <<ImsgPid(type, id, pid, data)>>
    /\ UNCHANGED sessions

----------------------------------------------------------------------------
(* rtr_main: the loop, position by position *)

\* the signals rtr_main installs rtr_sighdlr for
Signals == {"SIGINT", "SIGTERM"}

\* rtr_sighdlr(sig): the new value of rtr_quit
rtr_sighdlr(quit, sig) == IF sig \in {"SIGINT", "SIGTERM"} THEN 1 ELSE quit

\* the descriptor of the channel to the parent (imsg_init(ibuf_main, 3))
MainFd == 3

\* the test of the while loop
loop_continues_always(quit) == TRUE
loop_continues(quit) == quit = 0

\* a signal arrives while the loop is not waiting in poll()
Signal(sig) ==
    /\ state = "running"
    /\ rtr_quit' = rtr_sighdlr(rtr_quit, sig)
    /\ UNCHANGED <<state, conf, nconf, aspa, ibuf_rde, now, expire_timer,
                   rde_out, main_out, expired, recalcs, logged, History,
                   pc, sessions, closed>>
    /\ UNCHANGED harness

\* while (rtr_quit == 0) ... and what follows the loop: rtr_shutdown(), the
\* channels closed, exit(0)
LoopTest ==
    /\ state = "running"
    /\ pc = "test"
    /\ Quiet
    /\ IF loop_continues(rtr_quit)
       THEN /\ pc' = "poll"
            /\ closed' = {}
            /\ UNCHANGED <<state, ibuf_rde, sessions>>
       ELSE /\ state' = "exited"
            /\ pc' = "test"
            /\ sessions' = rtr_shutdown(sessions)
            /\ closed' = OpenFds(sessions) \cup {ibuf_rde[i] : i \in 1..Len(ibuf_rde)}
                                           \cup {MainFd}
            /\ ibuf_rde' = NULL
    /\ UNCHANGED <<conf, nconf, aspa, now, expire_timer, History, rtr_quit>>
    /\ UNCHANGED harness

\* poll() returns -1 with EINTR because rtr_sighdlr ran: continue
PollInterrupted(sig) ==
    /\ state = "running"
    /\ pc = "poll"
    /\ pc' = "test"
    /\ rtr_quit' = rtr_sighdlr(rtr_quit, sig)
    /\ Quiet
    /\ closed' = {}
    /\ UNCHANGED <<state, conf, nconf, aspa, ibuf_rde, now, expire_timer, History,
                   sessions>>
    /\ UNCHANGED harness

\* a step that only moves the loop on
Advance(from, to) ==
    /\ state = "running"
    /\ pc = from
    /\ pc' = to
    /\ Quiet
    /\ closed' = {}
    /\ UNCHANGED <<state, conf, nconf, aspa, ibuf_rde, now, expire_timer, History,
                   rtr_quit, sessions>>
    /\ UNCHANGED harness

\* poll() returns: a descriptor is ready or the timeout has passed
PollReturns == Advance("poll", "parent")

\* imsg_get returns 0: the dispatcher has read all there was
DispatchEnd == Advance("parent", "rde")

\* the RDE channel has been looked at
RdeDone == Advance("rde", "timer")

\* timer_nextisdue: the tick, or nothing
TimerTick == pc = "timer" /\ ExpireTimer
TimerDone == expire_timer > now /\ Advance("timer", "test")

QuitInit == EngineStart /\ pc = "test" /\ HarnessIdle

QuitNext ==
    \/ \E sig \in Signals : Signal(sig)
    \/ LoopTest
    \/ pc = "poll" /\ Elapse
    \/ \E sig \in Signals : PollInterrupted(sig)
    \/ PollReturns
    \/ pc = "parent" /\ ParentLost
    \/ pc = "parent" /\ SOCKET_CONN_RTR(4)
    \/ \E lenok \in BOOLEAN : pc = "parent" /\ RECONF_CONF(lenok)
    \/ pc = "parent" /\ RECONF_DRAIN
    \/ pc = "parent" /\ RECONF_DONE
    \/ pc = "parent" /\ RECONF_RTR_CONFIG(TRUE, 1)
    \/ \E fd \in {5, 6} : pc = "parent" /\ SOCKET_CONN(1, fd)
    \/ DispatchEnd
    \/ pc = "rde" /\ RdeLost
    \/ RdeDone
    \* rtr_check_events: a session has something to tell the parent
    \/ /\ pc = "timer"
       /\ rtr_get(sessions, 1) # NULL
       /\ rtr_imsg_compose("IMSG_SOCKET_CONN", 1, 0, <<>>)
    \/ TimerTick
    \/ TimerDone

\* every statement of the loop is reached in turn: the dispatcher reads a
\* finite buffer and poll() is bounded by the timeout of the expire timer
SpecQuit ==
    /\ QuitInit /\ [][QuitNext]_vars
    /\ WF_vars(LoopTest) /\ WF_vars(PollReturns) /\ WF_vars(DispatchEnd)
    /\ WF_vars(RdeDone) /\ WF_vars(TimerTick) /\ WF_vars(TimerDone)

\* C31: once rtr_sighdlr has set rtr_quit, the loop is left: the loop test
\* that finds the flag set does not enter poll() again but closes every
\* session, the RDE channel and the parent channel and exits with status 0;
\* a poll() interrupted by the signal goes straight to that test; and the
\* test is reached (unless the rest of the iteration ends the process by a
\* fatal error), so the process does not keep running
C31_ShutdownOnSignal ==
    /\ [][(state = "running" /\ pc = "test" /\ rtr_quit # 0)
          => /\ state' = "exited"
             /\ sessions' = {}
             /\ ibuf_rde' = NULL
             /\ closed' = OpenFds(sessions) \cup {MainFd}
                             \cup (IF ibuf_rde = NULL THEN {} ELSE {Deref(ibuf_rde)})
             /\ main_out' = <<>> /\ rde_out' = <<>>]_vars
    /\ [][(state = "running" /\ pc = "poll" /\ rtr_quit = 0 /\ rtr_quit' # 0
           /\ pc' # "poll") => pc' = "test"]_vars
    /\ [][(rtr_quit # 0 /\ pc # "poll") => pc' # "poll"]_vars
    /\ [](state = "exited" => rtr_quit # 0)
    /\ ((state = "running" /\ rtr_quit # 0) ~> (state # "running"))

C31_Witness ==
    /\ state = "exited"
    /\ rtr_quit = 1
    /\ closed = {3, 4, 5}
    /\ sessions = {}
    /\ ibuf_rde = NULL
    /\ conf = new_config

----------------------------------------------------------------------------
(* Drain, and a commit without a begin *)

\* C32: IMSG_RECONF_DRAIN is answered by exactly one IMSG_RECONF_DRAIN to the
\* parent and nothing else happens: nothing goes to the RDE, no expiry pass
\* and no recalculation run, and the active config, the staged config (absent
\* or under assembly), the ASPA set under assembly and the RDE channel are
\* what they were
C32_DrainIsProbe ==
    [][(state = "running" /\ now' = now /\ expire_timer' = expire_timer
        /\ RECONF_DRAIN)
       => /\ state' = "running"
          /\ main_out' = <<Imsg("IMSG_RECONF_DRAIN", <<>>)>>
          /\ rde_out' = <<>>
          /\ expired' = <<0, 0>> /\ recalcs' = 0
          /\ conf' = conf /\ nconf' = nconf /\ aspa' = aspa
          /\ ibuf_rde' = ibuf_rde]_vars

C32_Witness ==
    /\ state = "running"
    /\ main_out = <<Imsg("IMSG_RECONF_DRAIN", <<>>)>>
    /\ nconf # NULL /\ Deref(nconf).roa # <<>>
    /\ aspa # NULL /\ Deref(aspa).tas # NULL
    /\ conf.roa # <<>>

\* C33: IMSG_RECONF_DONE with no staged config is fatal: the active config is
\* not replaced, no expiry pass and no recalculation run, nothing is sent to
\* the RDE and no IMSG_RECONF_DONE goes back to the parent
C33_CommitWithoutBeginFatal ==
    [][(state = "running" /\ nconf = NULL /\ now' = now
        /\ expire_timer' = expire_timer /\ RECONF_DONE)
       => /\ state' = "fatal"
          /\ conf' = conf /\ nconf' = NULL
          /\ rde_out' = <<>> /\ main_out' = <<>>
          /\ expired' = <<0, 0>> /\ recalcs' = 0]_vars

C33_Witness ==
    /\ state = "fatal"
    /\ nconf = NULL
    /\ conf.roa # <<>> /\ conf.aspa # <<>>
    /\ ibuf_rde # NULL
    /\ main_out = <<>> /\ rde_out = <<>> /\ recalcs = 0

----------------------------------------------------------------------------
(* Sessions: the parent declares sessions, hands over their connections and
   asks for their status, between and within reconfigurations *)

SessionNext ==
    \/ \E id \in RtrIds, fd \in SessionFds : SOCKET_CONN(id, fd)
    \/ \E lenok \in BOOLEAN, id \in RtrIds : RECONF_RTR_CONFIG(lenok, id)
    \/ \E id \in RtrIds, pid \in CtlPids : CTL_SHOW_RTR(id, pid)
    \/ \E pid \in CtlPids : CTL_END(pid)
    \/ \E type \in {"IMSG_SOCKET_CONN", "IMSG_CTL_SHOW_RTR"},
          id \in RtrIds, pid \in CtlPids :
            rtr_imsg_compose(type, id, pid, <<>>)
    \/ SOCKET_CONN_RTR(4)
    \/ RECONF_CONF(TRUE)
    \/ CommitBegun
    \/ RECONF_DRAIN

SpecSession == Init /\ [][SessionNext]_vars

\* C34: a connection handed over for a session id that is not registered is
\* logged, its descriptor is closed, and no session appears or changes; a
\* status query for such an id is logged and gets no reply; in both cases the
\* process runs on; IMSG_CTL_END goes back to the parent as one IMSG_CTL_END
\* with the pid of the request
C34_UnknownSessionRecovered ==
    [][state = "running" =>
        /\ \A id \in RtrIds, fd \in SessionFds \ {-1} :
              (rtr_get(sessions, id) = NULL /\ SOCKET_CONN(id, fd))
              => /\ state' = "running"
                 /\ logged' = <<unknown_rtr_id("IMSG_SOCKET_CONN", id)>>
                 /\ closed' = {fd}
                 /\ sessions' = sessions
                 /\ main_out' = <<>> /\ rde_out' = <<>>
                 /\ conf' = conf /\ nconf' = nconf
        /\ \A id \in RtrIds, pid \in CtlPids :
              (rtr_get(sessions, id) = NULL /\ CTL_SHOW_RTR(id, pid))
              => /\ state' = "running"
                 /\ logged' = <<unknown_rtr_id("IMSG_CTL_SHOW_RTR", id)>>
                 /\ closed' = {}
                 /\ sessions' = sessions
                 /\ main_out' = <<>> /\ rde_out' = <<>>
                 /\ conf' = conf /\ nconf' = nconf
        /\ \A pid \in CtlPids :
              CTL_END(pid)
              => /\ state' = "running"
                 /\ main_out' = <<ImsgPid("IMSG_CTL_END", 0, pid, <<>>)>>
                 /\ sessions' = sessions /\ closed' = {}]_vars

C34_Witness ==
    /\ state = "running"
    /\ logged = <<"IMSG_CTL_SHOW_RTR: unknown rtr id 2">>
    /\ sessions = {Session(1, 5, TRUE)}
    /\ main_out = <<>>
    /\ nconf # NULL

----------------------------------------------------------------------------
(* Staged data: what the handler and the tick rely on *)

\* C35: a ROA item, or the done of an ASPA set under assembly, that arrives
\* while no staged config exists is rejected: the process ends by fatalx, or
\* it drops the message and stays as it is; it does not reach into a staged
\* config that is not there
C35_StagedDataNeedsBegin ==
    [][(state = "running" /\ nconf = NULL /\ now' = now
        /\ expire_timer' = expire_timer
        /\ (\/ \E roa \in RoaItems : RECONF_ROA_ITEM(TRUE, roa)
            \/ (aspa # NULL /\ RECONF_ASPA_DONE)))
       => (state' = "fatal" \/ (state' = "running" /\ nconf' = NULL /\ conf' = conf))]_vars

\* the provider array of a set is there and has the declared length
Complete(set) ==
    set.num > 0 => (set.tas # NULL /\ Len(Deref(set.tas)) = set.num)

\* C36: every ASPA set of the staged config and of the active config has,
\* when it declares providers, a provider array of exactly that many entries
C36_StagedSetsComplete ==
    state = "running" =>
        /\ \A k \in 1..Len(conf.aspa) : Complete(conf.aspa[k])
        /\ nconf # NULL =>
               \A k \in 1..Len(Deref(nconf).aspa) : Complete(Deref(nconf).aspa[k])

\* C37: what a timer tick at time now queues for the RDE holds no ROA whose
\* non-zero expiry is <= now and no ASPA set of a customer AS whose active set
\* had such an expiry, in any of the snapshots of the tick
C37_TickSnapshotsUnexpired ==
    [][(state = "running" /\ state' = "running" /\ TickStep) =>
        /\ \A i \in OfType(rde_out', "IMSG_RECONF_ROA_ITEM") :
               rde_out'[i].data[6] = 0 \/ rde_out'[i].data[6] > now
        /\ \A i \in OfType(rde_out', "IMSG_RECONF_ASPA") :
               \A a \in DueAspas(conf, now) : rde_out'[i].data[1] # a.as
      ]_vars

----------------------------------------------------------------------------
(* Recalculation of sets whose provider arrays came in any order *)

\* provider arrays as the parent may send them: unsorted, with repetitions
CanonProviders == {64501, 64502, 64503}
CanonTas == UNION {[1..n -> CanonProviders] : n \in 1..MaxRecv}

\* an active set as the handler stored it: the arrays as received
ReceivedSet(as, tas, aids) ==
    [expires |-> 0, as |-> as, num |-> Len(tas), tas |-> Ptr(tas), tas_aid |-> Ptr(aids)]

CanonTrees ==
    UNION {{<<ReceivedSet(65001, tas, aids)>> :
               aids \in [1..Len(tas) -> {AID_UNSPEC, AID_INET}]} : tas \in CanonTas}
    \cup {<<ReceivedSet(65001, tas, [i \in 1..Len(tas) |-> AID_UNSPEC]),
            ReceivedSet(65002, <<64503, 64501>>, <<AID_UNSPEC, AID_UNSPEC>>)>> :
             tas \in CanonTas}

CanonInit ==
    /\ EngineInit
    /\ t_in \in {[conf |-> [roa |-> <<>>, aspa |-> A], rde |-> Ptr(4)] :
                    A \in CanonTrees}
    /\ t_res = <<>>
    /\ t_pc = 0

SpecCanon == CanonInit /\ [][RecalcNext]_vars

\* C38: in a published snapshot no two sets have the same customer AS, and
\* the provider array of each set is strictly ascending (so without a
\* repeated provider), has the length its begin message declares and holds
\* the providers of the active set of that customer AS, however the array of
\* the active set was ordered
C38_SnapshotCanonical ==
    Recalculated =>
        \A starts \in {SetStarts(t_res.out, 1)} :
            /\ Len(starts) = Len(t_in.conf.aspa)
            /\ \A j, k \in 1..Len(starts) :
                   j # k => t_res.out[starts[j]].data[1] # t_res.out[starts[k]].data[1]
            /\ \A k \in 1..Len(starts) :
                   /\ StrictlyAscending(ProvidersAt(t_res.out, starts[k]))
                   /\ Len(ProvidersAt(t_res.out, starts[k])) = t_res.out[starts[k]].data[2]
                   /\ \E a \in Elems(t_in.conf.aspa) :
                          /\ a.as = t_res.out[starts[k]].data[1]
                          /\ Elems(ProvidersAt(t_res.out, starts[k])) = Elems(Deref(a.tas))

\* a set received as 64502, 64501, 64502 was published as 64501, 64502
C38_Witness ==
    /\ Recalculated
    /\ Len(t_in.conf.aspa) = 1
    /\ Deref(t_in.conf.aspa[1].tas) = <<64502, 64501, 64502>>
    /\ OfType(t_res.out, "IMSG_RECONF_ASPA") = {3}
    /\ t_res.out[3].data = <<65001, 2>>
    /\ ProvidersAt(t_res.out, 3) = <<64501, 64502>>

----------------------------------------------------------------------------
(* The family mask: its message kind and the buffer it is packed in *)

\* C39: in a snapshot the family mask of a set is sent under a message kind
\* other than that of the provider array of the set
C39_MaskKindDistinct ==
    Recalculated =>
        \A starts \in {SetStarts(t_res.out, 1)} :
            \A k \in 1..Len(starts) :
                MaskAt(t_res.out, starts[k]) # NULL
                => t_res.out[starts[k] + 2].type # t_res.out[starts[k] + 1].type

\* the sets rtr_aspa_set_prep is called on: the scratch union of the store
PrepInputs(c) == rtr_aspa_merge(aspa_union(<<>>, c.aspa, 1).at)

\* C40: for every set of N >= 1 providers that rtr_aspa_set_prep packs, each
\* 4-byte mask word it writes lies within the N bytes of the family array,
\* the word written after the loop included, and covers only codes the loop
\* has already read
C40_PackingInBounds ==
    (t_pc = 1 /\ t_in.rde # NULL) =>
        \A sets \in {PrepInputs(t_in.conf)} :
            \A k \in 1..Len(sets) :
                \A w \in mask_writes(sets[k].num,
                                     rtr_aspa_set_prep(sets[k]).aspa.tas_aid # NULL) :
                    /\ w.off + 4 <= sets[k].num
                    /\ \A b \in w.off..(w.off + 3) : b < sets[k].num => b < w.read

====
